---- MODULE Spec2Model ----
(***************************************************************************)
(* Model of the roam indexer: the lock protocol of Indexer.run, the        *)
(* indexing pipeline of Indexer._do_run over the files / symbols / edges / *)
(* file_edges tables, the resolver of roam.index.relations and the scratch *)
(* state of the language extractors.                                       *)
(*                                                                         *)
(* Conventions: Python None and "" are both the empty string for names,    *)
(* None is 0 for line numbers (the code reads them with "or 0"); a dict in *)
(* insertion order is a sequence of records; a table is the sequence of    *)
(* its rows in rowid order.                                                *)
(***************************************************************************)
EXTENDS Integers, Sequences, FiniteSets, TLC

VARIABLES
    disk,        \* path -> content of the file, or NoFile
    files,       \* table files
    symbols,     \* table symbols
    edges,       \* table edges
    file_edges,  \* table file_edges
    clusters,    \* table clusters
    lastRun,     \* what the last Indexer._do_run did (history)
    prev,        \* the tables as the last run found them (history)
    good,        \* the tables as the last run that returned left them (history)
    nruns,       \* number of runs so far
    nedits,      \* number of edits of the tree so far
    ncrashes,    \* number of runs ended by an exception so far
    lock,        \* content of .roam/index.lock
    pc,          \* pid -> position inside Indexer.run
    seen,        \* pid -> pid read from the lock file
    alive,       \* pid -> the process exists
    wrote,       \* pid -> the process has written the lock file (history)
    pending,     \* extractor -> _pending_inherits of the cached instance
    lastCall,    \* the last extractor call and what it returned (history)
    res_rows,    \* the symbol dicts handed to resolve_references
    res_refs,    \* the references handed to resolve_references
    res_out,     \* whether resolve_references was called, and what it returned
    cmd_out,     \* the last query command run on the index and its output
    flow,        \* the actionCalls elements of a Flow metadata file
    flow_refs,   \* what the metadata extractor returned for that file
    vue_src,     \* the tags of a Vue single-file component, in source order
    vue_out      \* what extract_vue_template returned for that source

vars == <<disk, files, symbols, edges, file_edges, clusters, lastRun, prev, good, nruns,
          nedits, ncrashes, lock, pc, seen, alive, wrote, pending, lastCall,
          res_rows, res_refs, res_out, cmd_out, flow, flow_refs, vue_src, vue_out>>

pipeVars == <<disk, files, symbols, edges, file_edges, clusters, lastRun, prev, good,
              nruns, nedits, ncrashes>>
lockVars == <<lock, pc, seen, alive, wrote>>
extVars == <<pending, lastCall>>
resVars == <<res_rows, res_refs, res_out>>
cmdVars == <<cmd_out>>
flowVars == <<flow, flow_refs>>
vueVars == <<vue_src, vue_out>>
queryVars == <<cmd_out, flow, flow_refs, vue_src, vue_out>>

-----------------------------------------------------------------------------
(* Bounds *)

MaxRuns == 3
MaxEdits == 2
MaxCrashes == 1
NProcs == 2
MaxPending == 3

-----------------------------------------------------------------------------
(* Generic helpers *)

Range(s) == {s[i] : i \in DOMAIN s}

Max(S) == IF S = {} THEN 0 ELSE CHOOSE m \in S : \A x \in S : x <= m
Min(S) == CHOOSE m \in S : \A x \in S : m <= x

IsPrefix(p, s) == Len(p) <= Len(s) /\ SubSeq(s, 1, Len(p)) = p

IsSuffix(p, s) == Len(p) <= Len(s) /\ SubSeq(s, Len(s) - Len(p) + 1, Len(s)) = p

-----------------------------------------------------------------------------
(* The source tree.  A path is its directory segments, base name and       *)
(* extension; a content is what the extractor finds in the file.           *)

PX == [dir |-> <<"a">>, base |-> "x", ext |-> ".js"]
PY == [dir |-> <<"a">>, base |-> "y", ext |-> ".js"]
PZ == [dir |-> <<"c">>, base |-> "z", ext |-> ".js"]

\* a data file: a grammar exists for its language, an extractor does not
PJ == [dir |-> <<"a">>, base |-> "config", ext |-> ".json"]
\* a file of a language the installed language pack has no grammar for
PL == [dir |-> <<"a">>, base |-> "init", ext |-> ".el"]
\* a CommonJS module
PM == [dir |-> <<"a">>, base |-> "m", ext |-> ".js"]
\* a Vue single-file component with a plain <script setup>
PV == [dir |-> <<"a">>, base |-> "App", ext |-> ".vue"]

AllPaths == <<PX, PY, PZ, PJ, PL, PM, PV>>
Paths == Range(AllPaths)

\* the tree maps a path to the key of the file's content
NoFile == "absent"
NoImport == [scheme |-> "", segs |-> <<>>, ext |-> ""]
\* a reference the indexer has not yet stamped with its source_file
NoPath == [dir |-> <<>>, base |-> "", ext |-> ""]

\* A name is the sequence of its segments: "f" is <<"f">>, "Foo.m" (or
\* "Foo::m") is <<"Foo", "m">>, None and "" are <<>>.
NoName == <<>>

Sym(n, qn, k, ls, le, ex, par) ==
    [name |-> <<n>>, qualified_name |-> qn, kind |-> k, line_start |-> ls,
     line_end |-> le, is_exported |-> ex, parent_name |-> par]

Ref(src, tgt, k, ln) ==
    [source_name |-> src, target_name |-> tgt, kind |-> k, line |-> ln,
     import_path |-> NoImport, source_file |-> NoPath]

\* function f
KDefF == [syms |-> <<Sym("f", <<"f">>, "function", 1, 3, FALSE, NoName)>>,
          inherits |-> <<>>, refs |-> <<>>]
\* function f, moved one line down
KDefF2 == [syms |-> <<Sym("f", <<"f">>, "function", 2, 4, FALSE, NoName)>>,
           inherits |-> <<>>, refs |-> <<>>]
\* function g calling f twice, itself once, and passing f as a callback
KCallF == [syms |-> <<Sym("g", <<"g">>, "function", 1, 6, FALSE, NoName)>>,
           inherits |-> <<>>,
           refs |-> <<Ref(<<"g">>, <<"f">>, "call", 2),
                      Ref(<<"g">>, <<"g">>, "call", 3),
                      Ref(<<"g">>, <<"f">>, "call", 4),
                      Ref(<<"g">>, <<"f">>, "reference", 5)>>]
\* class Foo extends Base with a method m, and a call to f made inside a
\* function g nested in a callback (g is a scope name, not a symbol)
KClass == [syms |-> <<Sym("Foo", <<"Foo">>, "class", 1, 4, TRUE, NoName),
                      Sym("m", <<"Foo", "m">>, "method", 2, 3, FALSE, <<"Foo">>)>>,
           inherits |-> <<Ref(<<"Foo">>, <<"Base">>, "inherits", 1)>>,
           refs |-> <<Ref(<<"g">>, <<"f">>, "call", 6)>>]
\* class Base implements f
KBase == [syms |-> <<Sym("Base", <<"Base">>, "class", 1, 2, TRUE, NoName)>>,
          inherits |-> <<Ref(<<"Base">>, <<"f">>, "implements", 1)>>,
          refs |-> <<>>]

\* function h; module.exports = { go() { k() } }; function k
KExports == [syms |-> <<Sym("h", <<"h">>, "function", 1, 3, FALSE, NoName),
                        Sym("go", <<"exports", "go">>, "function", 5, 7, TRUE,
                            <<"exports">>),
                        Sym("k", <<"k">>, "function", 9, 11, FALSE, NoName)>>,
             inherits |-> <<>>,
             refs |-> <<Ref(NoName, <<"k">>, "call", 6)>>]
\* <button @click="handleClick"> at line 2, function handleClick at lines 5-7
KVue == [syms |-> <<Sym("handleClick", <<"handleClick">>, "function", 5, 7, FALSE,
                        NoName)>>,
         inherits |-> <<>>,
         refs |-> <<Ref(<<"handleClick">>, <<"log">>, "call", 6)>>,
         tpl |-> <<[name |-> <<"handleClick">>, line |-> 2]>>]
\* the same component with const count declared before handleClick and
\* {{ count }} in the template
KVue2 == [syms |-> <<Sym("count", <<"count">>, "constant", 5, 5, FALSE, NoName),
                     Sym("handleClick", <<"handleClick">>, "function", 6, 8, FALSE,
                         NoName)>>,
          inherits |-> <<>>,
          refs |-> <<Ref(<<"handleClick">>, <<"log">>, "call", 7)>>,
          tpl |-> <<[name |-> <<"handleClick">>, line |-> 2],
                    [name |-> <<"count">>, line |-> 3],
                    [name |-> <<"handleClick">>, line |-> 3]>>]
\* a file no extractor is applied to
KData == [syms |-> <<>>, inherits |-> <<>>, refs |-> <<>>]

Contents == {"defF", "defF2", "callF", "class", "base", "exports", "vue", "vue2",
             "data"}

\* what the extractor finds in a file of this content
Body(key) ==
    CASE key = "defF" -> KDefF
      [] key = "defF2" -> KDefF2
      [] key = "callF" -> KCallF
      [] key = "class" -> KClass
      [] key = "base" -> KBase
      [] key = "exports" -> KExports
      [] key = "vue" -> KVue
      [] key = "vue2" -> KVue2
      [] key = "data" -> KData

\* the contents each file of the tree takes
Variants(p) ==
    IF p = PX THEN {"defF", "base"}
    ELSE IF p = PY THEN {"defF", "defF2", "class"}
    ELSE IF p = PZ THEN {"callF"}
    ELSE {}

\* the contents each file of the mixed tree takes
MixedVariants(p) ==
    IF p \in {PJ, PL} THEN {"data"}
    ELSE IF p = PM THEN {"exports"}
    ELSE IF p = PV THEN {"vue", "vue2"}
    ELSE {}

UpperInitial == {"Foo", "Base"}
\* name and name[0].isupper()
IsUpper(name) == name # <<>> /\ Head(name) \in UpperInitial

\* os.path.dirname(file_path)
Dirname(p) == p.dir

-----------------------------------------------------------------------------
(* roam.index.relations: the resolver.  `rows` is all_symbol_rows, the     *)
(* symbol dicts in insertion order; `refs` is the list of references.      *)

\* symbols_by_name.get(name, [])
Candidates(name, rows) == SelectSeq(rows, LAMBDA s : s.name = name)

\* the qualified names looked up as simple names
QnMatches_BySimpleName(target, rows) == SelectSeq(rows, LAMBDA s : s.name = target)

\* symbols_by_qualified.get(target_name, [])
QnMatches(target, rows) ==
    SelectSeq(rows, LAMBDA s : s.qualified_name # <<>> /\ s.qualified_name = target)

\* import_map.get((source_file, name)): the last import of that name wins
ImportPathOf(source_file, name, refs) ==
    LET Hit(r) == /\ r.kind = "import"
                  /\ r.import_path # NoImport
                  /\ r.source_file = source_file
                  /\ r.target_name = name
                  /\ name # <<>>
        idx == {i \in DOMAIN refs : Hit(refs[i])}
    IN  IF idx = {} THEN NoImport ELSE refs[Max(idx)].import_path

\* the values of symbols_by_name, list after list
RECURSIVE GroupedByName(_)
GroupedByName(rows) ==
    IF rows = <<>> THEN <<>>
    ELSE LET n == Head(rows).name
         IN  Candidates(n, rows)
               \o GroupedByName(SelectSeq(rows, LAMBDA s : s.name # n))

\* list.sort(key=line_start or 0): stable
RECURSIVE SortByLineStart(_)
SortByLineStart(s) ==
    IF s = <<>> THEN <<>>
    ELSE LET x == s[Len(s)]
             rest == SortByLineStart(SubSeq(s, 1, Len(s) - 1))
             k == Cardinality({i \in DOMAIN rest : rest[i].line_start <= x.line_start})
         IN  SubSeq(rest, 1, k) \o <<x>> \o SubSeq(rest, k + 1, Len(rest))

\* _file_symbols.get(source_file)
FileSymbols(source_file, rows) ==
    SortByLineStart(SelectSeq(GroupedByName(rows), LAMBDA s : s.file_path = source_file))

\* sym.get("line_end") or 0
LineEndOf(sym) == IF "line_end" \in DOMAIN sym THEN sym.line_end ELSE 0

None == [none |-> TRUE]

\* no fallback for a reference made at module scope
_closest_symbol_None(source_file, ref_line, rows) == None

_closest_symbol(source_file, ref_line, rows) ==
    LET Contains(sym) == /\ sym.line_start <= ref_line
                         /\ LineEndOf(sym) >= ref_line
                         /\ LineEndOf(sym) > 0
        Closest(syms) ==
            LET idx == {i \in DOMAIN syms : Contains(syms[i])}
            IN  IF syms = <<>> THEN None
                ELSE IF ref_line = 0 THEN syms[1]
                ELSE IF idx # {} THEN syms[Max(idx)]
                ELSE syms[1]
    IN  Closest(FileSymbols(source_file, rows))

Strippable == {".ts", ".js", ".vue", ".tsx", ".jsx", ".py"}

\* the segments of a path string; the last one keeps its extension unless
\* the extension is one of those the matcher strips
PathSegs(dir, base, ext) ==
    [i \in 1..Len(dir) |-> <<dir[i], "">>]
        \o <<(<<base, IF ext \in Strippable THEN "" ELSE ext>>)>>

DirSegs(p) == [i \in 1..Len(p.dir) |-> <<p.dir[i], "">>]

\* s occurs in t as a run of whole segments
IsInfix(s, t) ==
    \E i \in 1..(Len(t) - Len(s) + 1) : SubSeq(t, i, i + Len(s) - 1) = s

IsSalesforce(ip) ==
    ip.scheme \in {"@salesforce/apex/", "@salesforce/schema/",
                   "@salesforce/label/", "@salesforce/other/"}

_resolve_salesforce_import(ip, cands) ==
    IF ip.scheme = "@salesforce/apex/"
    THEN SelectSeq(cands, LAMBDA c :
            /\ ip.segs # <<>>
            /\ c.file_path.base = Head(ip.segs)
            /\ c.file_path.ext \in {".cls", ".trigger"}
            /\ c.file_path.dir # <<>>)
    ELSE IF ip.scheme = "@salesforce/schema/"
    THEN SelectSeq(cands, LAMBDA c :
            \/ c.qualified_name = ip.segs
            \/ (ip.segs # <<>> /\ c.name = <<ip.segs[Len(ip.segs)]>>))
    ELSE IF ip.scheme = "@salesforce/label/"
    THEN LET label == IF ip.segs # <<>> /\ Head(ip.segs) = "c"
                      THEN Tail(ip.segs) ELSE ip.segs
         IN  SelectSeq(cands, LAMBDA c : c.name = label)
    ELSE <<>>

_match_import_path(ip, cands) ==
    LET body == IF ip.segs = <<>> THEN <<>>
                ELSE PathSegs(SubSeq(ip.segs, 1, Len(ip.segs) - 1),
                              ip.segs[Len(ip.segs)], ip.ext)
        Matches(sf, normalized) ==
            LET Direct(c) == IsSuffix(normalized, PathSegs(c.file_path.dir,
                                                          c.file_path.base,
                                                          c.file_path.ext))
                Barrel(c) == IsInfix(normalized, DirSegs(c.file_path))
            IN  IF ip = NoImport THEN <<>>
                ELSE IF sf # <<>> THEN sf
                ELSE IF IsSalesforce(ip) \/ normalized = <<>> THEN <<>>
                ELSE SelectSeq(cands, LAMBDA c : Direct(c) \/ Barrel(c))
    IN  Matches(_resolve_salesforce_import(ip, cands),
                IF ip.scheme = "@/" THEN <<(<<"src", "">>)>> \o body
                ELSE IF ip.scheme = "../" THEN <<(<<"..", "">>)>> \o body
                ELSE body)

\* the first element of a list, or None
FirstOr(s, dflt) == IF s = <<>> THEN dflt ELSE s[1]

_best_match(name, source_file, rows, ref_kind, source_parent, refs) ==
    LET Exported(l) == SelectSeq(l, LAMBDA s : s.is_exported)
        PreferExported(l) == FirstOr(Exported(l), l[1])
        Among(candidates, imp_path) ==
            LET class_candidates == SelectSeq(candidates, LAMBDA c : c.kind = "class")
                source_dir == Dirname(source_file)
                same_file == SelectSeq(candidates, LAMBDA s : s.file_path = source_file)
                with_parent == SelectSeq(same_file, LAMBDA s :
                                  /\ IsPrefix(source_parent, s.qualified_name)
                                  /\ Len(s.qualified_name) > Len(source_parent))
                same_dir == SelectSeq(candidates,
                                      LAMBDA s : Dirname(s.file_path) = source_dir)
                Imported(import_matched) ==
                    IF imp_path # NoImport /\ import_matched # <<>>
                    THEN PreferExported(import_matched)
                    ELSE PreferExported(candidates)
            IN  IF candidates = <<>> THEN None
                ELSE IF Len(candidates) = 1 THEN candidates[1]
                ELSE IF ref_kind = "call" /\ IsUpper(name) /\ class_candidates # <<>>
                THEN FirstOr(SelectSeq(class_candidates,
                                       LAMBDA s : s.file_path = source_file),
                       FirstOr(SelectSeq(class_candidates,
                                         LAMBDA s : Dirname(s.file_path) = source_dir),
                               class_candidates[1]))
                ELSE IF Len(same_file) = 1 THEN same_file[1]
                ELSE IF Len(same_file) > 1
                THEN IF source_parent # <<>> /\ with_parent # <<>>
                     THEN with_parent[1] ELSE same_file[1]
                ELSE IF same_dir # <<>> THEN PreferExported(same_dir)
                ELSE Imported(_match_import_path(imp_path, candidates))
    IN  Among(Candidates(name, rows), ImportPathOf(source_file, name, refs))

\* the symbol a reference starts from (relations.py 64-71)
SourceSym(ref, rows) ==
    LET OrClosest(named) ==
            IF named # None THEN named
            ELSE _closest_symbol(ref.source_file, ref.line, rows)
    IN  OrClosest(_best_match(ref.source_name, ref.source_file, rows, "", <<>>, <<>>))

\* src_qn.rsplit(sep, 1)[0] when the qualified name has a separator
SourceParent(source_sym) ==
    LET qn == source_sym.qualified_name
    IN  IF Len(qn) > 1 THEN SubSeq(qn, 1, Len(qn) - 1) ELSE <<>>

\* the symbol a reference points to (relations.py 82-114)
TargetSym(ref, source_sym, rows, refs) ==
    LET source_file == ref.source_file
        source_dir == Dirname(source_file)
        \* lines 84-91: the qualified-name match
        ByQn(qn_matches, best) ==
            IF Len(qn_matches) = 1 THEN qn_matches[1]
            ELSE IF Len(qn_matches) > 1 THEN best
            ELSE None
        \* lines 94-108: a local symbol is preferred to a match in another file
        Local(by_qn, candidates) ==
            LET local == SelectSeq(candidates, LAMBDA c : c.file_path = source_file)
                near == SelectSeq(candidates,
                                  LAMBDA c : Dirname(c.file_path) = source_dir)
            IN  IF by_qn # None /\ by_qn.file_path # source_file
                THEN IF local # <<>> THEN local[1]
                     ELSE IF /\ source_dir # <<>>
                             /\ Dirname(by_qn.file_path) # source_dir
                             /\ near # <<>>
                          THEN near[1]
                          ELSE by_qn
                ELSE by_qn
        \* lines 110-114: else the match by simple name
        OrBest(preferred, best) == IF preferred # None THEN preferred ELSE best
        From(best) ==
            OrBest(Local(ByQn(QnMatches(ref.target_name, rows), best),
                         Candidates(ref.target_name, rows)),
                   best)
    IN  From(_best_match(ref.target_name, source_file, rows, ref.kind,
                         SourceParent(source_sym), refs))

\* edge_key
EdgeKey(e) == <<e.source_id, e.target_id, e.kind>>

\* no edge taken as a self-edge
IsSelfEdge_Never(source_id, target_id) == FALSE

\* lines 122-123: source_id == target_id
IsSelfEdge(source_id, target_id) == source_id = target_id

\* lines 125-128: edge_key in seen
InSeen(acc, edge) == \E i \in DOMAIN acc : EdgeKey(acc[i]) = EdgeKey(edge)

\* one iteration of the loop over the references: the edges so far, extended
ResolveStep(acc, ref, rows, refs) ==
    LET Add(edge) == IF InSeen(acc, edge) THEN acc ELSE Append(acc, edge)
        Link(source_sym, target_sym) ==
            IF target_sym = None THEN acc
            ELSE IF IsSelfEdge(source_sym.id, target_sym.id) THEN acc
            ELSE Add([source_id |-> source_sym.id, target_id |-> target_sym.id,
                      kind |-> ref.kind, line |-> ref.line])
        From(source_sym) ==
            IF source_sym = None THEN acc
            ELSE Link(source_sym, TargetSym(ref, source_sym, rows, refs))
    IN  IF ref.target_name = <<>> THEN acc
        ELSE From(SourceSym(ref, rows))

RECURSIVE ResolveFrom(_, _, _, _)
ResolveFrom(i, acc, rows, refs) ==
    IF i > Len(refs) THEN acc
    ELSE ResolveFrom(i + 1, ResolveStep(acc, refs[i], rows, refs), rows, refs)

resolve_references(refs, rows) == ResolveFrom(1, <<>>, rows, refs)

\* source_sym and target_sym of one iteration of the loop, as their ids (0 for
\* None), before the self-edge and the duplicate are looked at (lines 56-117)
SourceAndTarget(ref, rows, refs) ==
    LET IdOf(sym) == IF sym = None THEN 0 ELSE sym.id
        From(source_sym) ==
            IF source_sym = None THEN [src |-> 0, tgt |-> 0]
            ELSE [src |-> source_sym.id,
                  tgt |-> IdOf(TargetSym(ref, source_sym, rows, refs))]
    IN  IF ref.target_name = <<>> THEN [src |-> 0, tgt |-> 0]
        ELSE From(SourceSym(ref, rows))

\* symbols.get(id)
SymById(id, rows) == FirstOr(SelectSeq(rows, LAMBDA s : s.id = id), None)

\* the (src_fid, tgt_fid) key an edge counts for, or None when it is skipped
FileKey(e, rows) ==
    LET src_sym == SymById(e.source_id, rows)
        tgt_sym == SymById(e.target_id, rows)
    IN  IF src_sym = None \/ tgt_sym = None THEN None
        ELSE IF src_sym.file_id = tgt_sym.file_id THEN None
        ELSE [src |-> src_sym.file_id, tgt |-> tgt_sym.file_id]

build_file_edges(symbol_edges, rows) ==
    LET Counted(keys) ==
            LET firsts == SelectSeq([i \in DOMAIN keys |-> i],
                             LAMBDA i : keys[i] # None
                                        /\ \A j \in 1..(i - 1) : keys[j] # keys[i])
            IN  [n \in DOMAIN firsts |->
                    [source_file_id |-> keys[firsts[n]].src,
                     target_file_id |-> keys[firsts[n]].tgt,
                     kind |-> "imports",
                     symbol_count |->
                        Cardinality({j \in DOMAIN keys : keys[j] = keys[firsts[n]]})]]
    IN  Counted([i \in DOMAIN symbol_edges |-> FileKey(symbol_edges[i], rows)])

-----------------------------------------------------------------------------
(* The language extractors: the symbol pass buffers the inheritance        *)
(* references in _pending_inherits, the reference pass returns and clears  *)
(* them.  `pend` is the _pending_inherits of the extractor instance.       *)

Extractors == {"javascript", "apex"}

\* the extractor whose file_extensions hold the extension of the file
ExtractorOf(path) == IF path.ext \in {".cls", ".trigger"} THEN "apex" ELSE "javascript"

\* JavaScriptExtractor.extract_symbols: the list is created once and appended to
JsExtractSymbols(content, pend) ==
    [symbols |-> content.syms, pending |-> pend \o content.inherits]

\* ApexExtractor.extract_symbols: the list is reset on every call
ApexExtractSymbols(content, pend) ==
    [symbols |-> content.syms, pending |-> content.inherits]

extract_symbols(ex, content, pend) ==
    IF ex = "apex" THEN ApexExtractSymbols(content, pend)
    ELSE JsExtractSymbols(content, pend)

\* extract_references of both extractors
extract_references(content, pend) ==
    [refs |-> content.refs \o pend, pending |-> <<>>]

\* GenericExtractor.extract_references, of which the indexer keeps the
\* inheritance kinds
GenericInherits(content) ==
    SelectSeq(content.inherits,
              LAMBDA r : r.kind \in {"inherits", "implements", "uses_trait"})

-----------------------------------------------------------------------------
(* roam.index.parser and roam.languages.registry, for the extensions of    *)
(* the trees.  "" stands for None.                                         *)

NoLanguage == ""
NoExtractor == "none"

\* EXTENSION_MAP.get(ext)
detect_language(p) ==
    IF p.ext = ".js" THEN "javascript"
    ELSE IF p.ext = ".vue" THEN "vue"
    ELSE IF p.ext \in {".cls", ".trigger"} THEN "apex"
    ELSE IF p.ext = ".json" THEN "json"
    ELSE IF p.ext = ".el" THEN "elisp"
    ELSE NoLanguage

\* the languages get_parser raises for: what the installed language pack lacks
NoGrammar == {"elisp"}

\* the language parse_file returns with the tree, NoLanguage when it returns
\* no tree; a Vue component goes on as the language of its script
parse_file(p, language) ==
    LET Parsed(lang) == IF lang \in NoGrammar THEN NoLanguage ELSE lang
    IN  IF language = NoLanguage THEN NoLanguage
        ELSE Parsed(IF language \in {"vue", "svelte"} THEN "javascript" ELSE language)

_SUPPORTED_LANGUAGES ==
    {"python", "javascript", "typescript", "tsx", "go", "rust", "java", "c", "cpp",
     "ruby", "php", "c_sharp", "kotlin", "swift", "scala", "vue", "svelte"}

\* get_extractor(lang), NoExtractor when it raises
get_extractor(lang) ==
    IF lang \notin _SUPPORTED_LANGUAGES THEN NoExtractor
    ELSE IF lang = "javascript" THEN "javascript"
    ELSE NoExtractor

\* lines 207-225: the extractor a file of files_to_process is handed to
ExtractorFor(rel_path) ==
    LET Got(lang) == IF lang = NoLanguage THEN NoExtractor ELSE get_extractor(lang)
    IN  Got(parse_file(rel_path, detect_language(rel_path)))

\* scan_template_references: one reference for each known name, at its first
\* occurrence in the template
scan_template_references(tpl, known_symbols, file_path) ==
    LET first == SelectSeq([i \in DOMAIN tpl |-> i],
                    LAMBDA i : /\ tpl[i].name \in known_symbols
                               /\ \A j \in 1..(i - 1) : tpl[j].name # tpl[i].name)
    IN  [n \in DOMAIN first |->
            [source_name |-> NoName, target_name |-> tpl[first[n]].name,
             kind |-> "template", line |-> tpl[first[n]].line,
             import_path |-> NoImport, source_file |-> file_path]]

\* lines 277-287: the template references of a Vue component
TemplateRefs(rel_path, content, syms) ==
    IF rel_path.ext = ".vue"
    THEN scan_template_references(content.tpl, {syms[i].name : i \in DOMAIN syms},
                                  rel_path)
    ELSE <<>>

-----------------------------------------------------------------------------
(* Indexer._do_run *)

EmptyTables == [files |-> <<>>, symbols |-> <<>>, edges |-> <<>>, file_edges |-> <<>>]

\* the id sqlite gives the next row of a table
NextId(tbl) == Max({tbl[i].id : i \in DOMAIN tbl}) + 1

discover_files(dk) == SelectSeq(AllPaths, LAMBDA p : dk[p] # NoFile)

\* the digest of a file's bytes: equal for equal contents only
file_hash(key) == key

get_changed_files(ftbl, all_files, dk) ==
    LET Known(p) == \E i \in DOMAIN ftbl : ftbl[i].path = p
        HashOf(p) == ftbl[CHOOSE i \in DOMAIN ftbl : ftbl[i].path = p].hash
    IN  [added |-> SelectSeq(all_files, LAMBDA p : ~Known(p)),
         modified |-> SelectSeq(all_files,
                        LAMBDA p : Known(p) /\ HashOf(p) # file_hash(dk[p])),
         removed |-> SelectSeq([i \in DOMAIN ftbl |-> ftbl[i].path],
                        LAMBDA p : p \notin Range(all_files))]

\* every discovered file taken as added, whatever the stored hashes say
Classify_AllAdded(force, ftbl, all_files, dk) ==
    [added |-> all_files, modified |-> <<>>, removed |-> <<>>]

\* lines 138-143
Classify(force, ftbl, all_files, dk) ==
    IF force THEN [added |-> all_files, modified |-> <<>>, removed |-> <<>>]
    ELSE get_changed_files(ftbl, all_files, dk)

\* DELETE FROM files WHERE id = ?, with the foreign keys' ON DELETE CASCADE
DeleteFileCascade(t, fid) ==
    LET gone == {t.symbols[i].id : i \in {j \in DOMAIN t.symbols : t.symbols[j].file_id = fid}}
    IN  [files |-> SelectSeq(t.files, LAMBDA f : f.id # fid),
         symbols |-> SelectSeq(t.symbols, LAMBDA s : s.file_id # fid),
         edges |-> SelectSeq(t.edges, LAMBDA e : e.source_id \notin gone
                                                 /\ e.target_id \notin gone),
         file_edges |-> SelectSeq(t.file_edges,
                           LAMBDA fe : fe.source_file_id # fid /\ fe.target_file_id # fid)]

\* only the modified files are deleted
PathsToRemove_ModifiedOnly(cls) == cls.modified

\* line 153: removed + modified
PathsToRemove(cls) == cls.removed \o cls.modified

\* lines 153-156
RECURSIVE RemoveFiles(_, _)
RemoveFiles(t, paths) ==
    IF paths = <<>> THEN t
    ELSE LET hit == SelectSeq(t.files, LAMBDA f : f.path = Head(paths))
         IN  RemoveFiles(IF hit # <<>> THEN DeleteFileCascade(t, hit[1].id) ELSE t,
                         Tail(paths))

\* lines 230-269: the symbols of one file, inserted one after the other
RECURSIVE InsertSymbols(_, _, _, _, _)
InsertSymbols(i, decls, file_id, rel_path, st) ==
    IF i > Len(decls) THEN st
    ELSE LET sym == decls[i]
             parents == SelectSeq(st.symbols, LAMBDA r : r.file_id = file_id
                                                         /\ r.name = sym.parent_name)
             parent_id == IF sym.parent_name # <<>> /\ parents # <<>>
                          THEN parents[1].id ELSE 0
             sym_id == NextId(st.symbols)
             row == [id |-> sym_id, file_id |-> file_id, name |-> sym.name,
                     qualified_name |-> sym.qualified_name, kind |-> sym.kind,
                     line_start |-> sym.line_start, line_end |-> sym.line_end,
                     is_exported |-> sym.is_exported, parent_id |-> parent_id]
             dict == [id |-> sym_id, file_id |-> file_id, file_path |-> rel_path,
                      name |-> sym.name, qualified_name |-> sym.qualified_name,
                      kind |-> sym.kind, is_exported |-> sym.is_exported,
                      line_start |-> sym.line_start]
         IN  InsertSymbols(i + 1, decls, file_id, rel_path,
                           [symbols |-> Append(st.symbols, row),
                            rows |-> Append(st.rows, dict)])

\* ref["source_file"] = rel_path
Stamp(refs, rel_path) == [i \in DOMAIN refs |-> [refs[i] EXCEPT !.source_file = rel_path]]

\* the file is skipped and its row is not inserted
Registered_Skipped(acc, file_row) == acc

\* lines 191-225: the row of a file is inserted before the file is parsed,
\* and stays when the file is skipped
Registered(acc, file_row) == [acc EXCEPT !.files = Append(acc.files, file_row)]

\* lines 167-301: one file of files_to_process
ProcessFile(acc, rel_path, dk) ==
    LET content == Body(dk[rel_path])
        file_id == NextId(acc.files)
        file_row == [id |-> file_id, path |-> rel_path,
                     hash |-> file_hash(dk[rel_path])]
        Stored(ex, es, ins, er) ==
            [Registered(acc, file_row) EXCEPT
                !.symbols = ins.symbols,
                !.rows = ins.rows,
                !.refs = acc.refs \o Stamp(er.refs, rel_path)
                           \o TemplateRefs(rel_path, content, es.symbols)
                           \o Stamp(GenericInherits(content), rel_path),
                !.pend = [acc.pend EXCEPT ![ex] = er.pending]]
        Extracted(ex, es) ==
            Stored(ex, es,
                   InsertSymbols(1, es.symbols, file_id, rel_path,
                                 [symbols |-> acc.symbols, rows |-> acc.rows]),
                   extract_references(content, es.pending))
        With(ex) ==
            IF ex = NoExtractor THEN Registered(acc, file_row)
            ELSE Extracted(ex, extract_symbols(ex, content, acc.pend[ex]))
    IN  With(ExtractorFor(rel_path))

RECURSIVE ProcessFiles(_, _, _)
ProcessFiles(acc, paths, dk) ==
    IF paths = <<>> THEN acc
    ELSE ProcessFiles(ProcessFile(acc, Head(paths), dk), Tail(paths), dk)

\* lines 342-393: the references of one unchanged file, extracted again
ReextractFile(acc, rel_path, dk) ==
    LET content == Body(dk[rel_path])
        \* lines 374-375: a Vue component's symbols are extracted once more
        Again(ex, pend) ==
            IF rel_path.ext = ".vue" THEN extract_symbols(ex, content, pend).pending
            ELSE pend
        Kept(ex, er) ==
            [acc EXCEPT !.refs = acc.refs \o Stamp(er.refs, rel_path)
                                    \o TemplateRefs(rel_path, content, content.syms)
                                    \o Stamp(GenericInherits(content), rel_path),
                        !.pend = [acc.pend EXCEPT ![ex] = Again(ex, er.pending)]]
        With(ex) ==
            IF ex = NoExtractor THEN acc
            ELSE Kept(ex, extract_references(content,
                            extract_symbols(ex, content, acc.pend[ex]).pending))
    IN  With(ExtractorFor(rel_path))

RECURSIVE ReextractFiles(_, _, _)
ReextractFiles(acc, paths, dk) ==
    IF paths = <<>> THEN acc
    ELSE ReextractFiles(ReextractFile(acc, Head(paths), dk), Tail(paths), dk)

\* the SELECT reading the tables as the run found them
SelectedFrom_Found(found, now) == found

\* lines 305-309: the SELECT reads the tables as the deletes and inserts of
\* this run have left them, not as the run found them
SelectedFrom(found, now) == now

\* lines 304-322: the symbols already in the database, after the new ones
ExistingRows(force, t, rows) ==
    LET PathOf(fid) == t.files[CHOOSE i \in DOMAIN t.files : t.files[i].id = fid].path
        known == {rows[i].id : i \in DOMAIN rows}
        old == SelectSeq(t.symbols, LAMBDA s : s.id \notin known)
    IN  IF force THEN rows
        ELSE rows \o [i \in DOMAIN old |->
                        [id |-> old[i].id, file_id |-> old[i].file_id,
                         file_path |-> PathOf(old[i].file_id),
                         name |-> old[i].name,
                         qualified_name |-> old[i].qualified_name,
                         kind |-> old[i].kind,
                         is_exported |-> old[i].is_exported,
                         line_start |-> old[i].line_start]]

\* lines 332-334: the files whose references are extracted again
Unchanged(force, cls, all_files) ==
    IF ~force /\ cls.modified # <<>>
    THEN SelectSeq(all_files,
            LAMBDA p : p \notin (Range(cls.added) \cup Range(cls.modified)
                                   \cup Range(cls.removed)))
    ELSE <<>>

\* The transaction of _do_run (lines 136-418) on tables t and tree dk:
\* the tables it leaves, the scratch state of the extractors, and what it did
\* (nw counts the rows deleted and inserted so far).
Pipeline(force, t, dk, pend0) ==
    LET all_files == discover_files(dk)
        \* lines 403-418: the edges and the file edges are inserted
        Store(cls, t3, rows, pend, symbol_edges, nw) ==
            [tables |-> [t3 EXCEPT
                            !.edges = t3.edges \o symbol_edges,
                            !.file_edges = t3.file_edges
                                             \o build_file_edges(symbol_edges, rows)],
             pend |-> pend, cls |-> cls, uptodate |-> FALSE,
             nwrites |-> nw + Len(symbol_edges)]
        \* lines 395-401
        Resolve(cls, t3, rows, r, nw) ==
            Store(cls, t3, rows, r.pend, resolve_references(r.refs, rows), nw)
        \* lines 328-393
        Reextract(cls, t2, rows, p, unchanged, nw) ==
            Resolve(cls,
                    IF unchanged # <<>>
                    THEN [t2 EXCEPT !.edges = <<>>, !.file_edges = <<>>] ELSE t2,
                    rows,
                    ReextractFiles(p, unchanged, dk),
                    nw + (IF unchanged # <<>> THEN Len(t2.edges) ELSE 0))
        \* lines 303-334
        Load(cls, t2, p, nw) ==
            Reextract(cls, t2, ExistingRows(force, SelectedFrom(t, t2), p.rows), p,
                      Unchanged(force, cls, all_files), nw)
        \* lines 158-301
        Processed(cls, t1, p, nw) ==
            Load(cls, [t1 EXCEPT !.files = p.files, !.symbols = p.symbols], p,
                 nw + (Len(p.files) - Len(t1.files)) + Len(p.rows))
        \* lines 150-156
        Removed(cls, t1) ==
            Processed(cls, t1,
                      ProcessFiles([files |-> t1.files, symbols |-> t1.symbols,
                                    rows |-> <<>>, refs |-> <<>>, pend |-> pend0],
                                   cls.added \o cls.modified, dk),
                      (Len(t.files) - Len(t1.files))
                        + (Len(t.symbols) - Len(t1.symbols))
                        + (Len(t.edges) - Len(t1.edges)))
        \* lines 145-148
        Classified(cls) ==
            IF Len(cls.added) + Len(cls.modified) + Len(cls.removed) = 0
            THEN [tables |-> t, pend |-> pend0, cls |-> cls, uptodate |-> TRUE,
                  nwrites |-> 0]
            ELSE Removed(cls, RemoveFiles(t, PathsToRemove(cls)))
    IN  Classified(Classify(force, t.files, all_files, dk))

\* Where an exception or a cancellation can end _do_run:
\*   "early"  before the database is touched (discover_files, line 122)
\*   "txn"    inside the with-block, before store_clusters has run
\*   "late"   inside the with-block, after store_clusters (lines 460-471)
FailPoints == {"early", "txn", "late"}

\* store_clusters commits when it is handed a non-empty cluster map, which
\* detect_clusters returns for a graph that has nodes
ClustersCommit(t) == t.symbols # <<>>

\* lines 126-134: with force the database file is deleted before it is opened
DropOnForce(force, t) == IF force THEN EmptyTables ELSE t

\* what open_db leaves in the database file when the with-block is left by
\* an exception: the last commit
RolledBack(t0, res) ==
    IF ~res.uptodate /\ ClustersCommit(res.tables) THEN res.tables ELSE t0

\* the tables a run that ends at failAt leaves in the database file
Persisted(force, t, res, failAt) ==
    IF failAt = "early" THEN t
    ELSE IF failAt = "none" THEN res.tables
    ELSE IF failAt = "txn" THEN DropOnForce(force, t)
    ELSE RolledBack(DropOnForce(force, t), res)

\* build_symbol_graph: one node per row of the symbols table
GraphNodes(t) == {t.symbols[i].id : i \in DOMAIN t.symbols}

\* detect_clusters (lines 12-36): every node of a graph that has nodes is a
\* member of one community, so the keys of the mapping are the nodes of G.
\* The community ids chosen by Louvain are not modelled.
detect_clusters(nodes) == nodes

\* store_clusters (lines 153-175): nothing is written for an empty mapping;
\* otherwise one row per key, replacing the row of the same symbol_id.
\* written_by records the run that wrote the row (history).
store_clusters(rows, cluster_map, run) ==
    IF cluster_map = {} THEN rows
    ELSE {r \in rows : r.symbol_id \notin cluster_map}
            \cup {[symbol_id |-> n, written_by |-> run] : n \in cluster_map}

\* lines 126-134 and 447-458: the clusters table after a run ended at failAt
ClustersAfter(force, failAt, res, rows, run) ==
    LET Stored(base) ==
            IF failAt \in {"early", "txn"} \/ res.uptodate THEN base
            ELSE store_clusters(base, detect_clusters(GraphNodes(res.tables)), run)
    IN  Stored(IF force /\ failAt # "early" THEN {} ELSE rows)

Tables == [files |-> files, symbols |-> symbols, edges |-> edges,
           file_edges |-> file_edges]

NoCls == [added |-> <<>>, modified |-> <<>>, removed |-> <<>>]

\* Indexer._do_run(force), ended at failAt ("none": it returns)
DoRun(force, failAt) ==
    LET Ends(res, after) ==
            /\ nruns' = nruns + 1
            /\ files' = after.files
            /\ symbols' = after.symbols
            /\ edges' = after.edges
            /\ file_edges' = after.file_edges
            /\ clusters' = ClustersAfter(force, failAt, res, clusters, nruns + 1)
            /\ pending' = IF failAt = "none" THEN res.pend ELSE pending
            /\ prev' = [tables |-> Tables, disk |-> lastRun.disk,
                        force |-> lastRun.force, outcome |-> lastRun.outcome]
            /\ good' = IF failAt = "none" THEN [tables |-> after, run |-> nruns + 1]
                       ELSE good
            /\ lastRun' = [force |-> force,
                           outcome |-> IF failAt # "none" THEN "failed"
                                       ELSE IF res.uptodate THEN "uptodate" ELSE "ok",
                           disk |-> disk,
                           cls |-> IF failAt = "early" THEN NoCls ELSE res.cls,
                           nwrites |-> IF failAt \in {"early", "txn"} THEN 0
                                       ELSE res.nwrites]
            /\ ncrashes' = IF failAt = "none" THEN ncrashes ELSE ncrashes + 1
            /\ UNCHANGED <<disk, nedits, lastCall>>
            /\ UNCHANGED lockVars
            /\ UNCHANGED resVars
            /\ UNCHANGED queryVars
        Runs(res) == Ends(res, Persisted(force, Tables, res, failAt))
    IN  /\ nruns < MaxRuns
        /\ Runs(Pipeline(force, DropOnForce(force, Tables), disk, pending))

\* a run that returns
IndexRun == \E force \in BOOLEAN : DoRun(force, "none")

\* a run ended by an exception or a cancellation
CrashedRun ==
    \E force \in BOOLEAN, failAt \in FailPoints :
        /\ ncrashes < MaxCrashes
        /\ DoRun(force, failAt)

\* the user changes, creates or deletes one file of a tree whose files take
\* the contents V
EditOf(V(_)) ==
    \E p \in Paths : \E c \in V(p) \cup {NoFile} :
        /\ nedits < MaxEdits
        /\ c # disk[p]
        /\ disk' = [disk EXCEPT ![p] = c]
        /\ nedits' = nedits + 1
        /\ UNCHANGED <<files, symbols, edges, file_edges, clusters, lastRun, prev, good,
                       nruns, ncrashes>>
        /\ UNCHANGED lockVars
        /\ UNCHANGED extVars
        /\ UNCHANGED resVars
        /\ UNCHANGED queryVars

Edit == EditOf(Variants)

EditMixed == EditOf(MixedVariants)

NoDisk == [p \in Paths |-> NoFile]

NoRun == [force |-> FALSE, outcome |-> "none", disk |-> NoDisk, cls |-> NoCls,
          nwrites |-> 0]

TreeInit(V(_)) ==
    /\ disk \in {d \in [Paths -> Contents \cup {NoFile}] :
                    \A p \in Paths : d[p] \in V(p) \cup {NoFile}}
    /\ files = <<>> /\ symbols = <<>> /\ edges = <<>> /\ file_edges = <<>>
    /\ clusters = {}
    /\ lastRun = NoRun
    /\ prev = [tables |-> EmptyTables, disk |-> NoDisk, force |-> FALSE,
               outcome |-> "none"]
    /\ good = [tables |-> EmptyTables, run |-> 0]
    /\ nruns = 0 /\ nedits = 0 /\ ncrashes = 0

PipeInit == TreeInit(Variants)

ExtIdle ==
    /\ pending = [e \in Extractors |-> <<>>]
    /\ lastCall = [op |-> "none", file |-> NoPath, key |-> NoFile, refs |-> <<>>]

\* resolve_references has not been handed anything
ResIdle ==
    /\ res_rows = <<>>
    /\ res_refs = <<>>
    /\ res_out = [called |-> FALSE, edges |-> <<>>, found |-> <<>>]

\* no query command has run, and no Flow or Vue source has been handed over
NoCmd == [cmd |-> "none", source |-> NoName, target |-> NoName, k |-> 0,
          paths |-> <<>>, cycles |-> <<>>]

QueryIdle ==
    /\ cmd_out = NoCmd
    /\ flow = <<>>
    /\ flow_refs = [called |-> FALSE, refs |-> <<>>]
    /\ vue_src = <<>>
    /\ vue_out = [called |-> FALSE, found |-> FALSE, content |-> <<>>,
                  start_line |-> 0]

-----------------------------------------------------------------------------
(* Indexer.run: the lock file .roam/index.lock.  Every indexer is a process *)
(* of its own; a step is one file-system call of run().                     *)

Procs == 1..NProcs

\* the pid left in the lock file by an indexer that was killed earlier
StalePid == 0
NoLock == -1

\* every pid taken to be that of a running process
IsRunning_Always(pid) == TRUE

\* os.kill(pid, 0) succeeds
IsRunning(pid) == pid \in Procs /\ alive[pid]

LockIdle ==
    /\ lock = NoLock
    /\ pc = [p \in Procs |-> "idle"]
    /\ seen = [p \in Procs |-> NoLock]
    /\ alive = [p \in Procs |-> TRUE]
    /\ wrote = [p \in Procs |-> FALSE]

Goto(p, label) == pc' = [pc EXCEPT ![p] = label]

\* the lock protocol leaves the index and the extractors alone
LockFrame ==
    UNCHANGED pipeVars /\ UNCHANGED extVars /\ UNCHANGED resVars /\ UNCHANGED queryVars

\* run() is called in process p
Start(p) ==
    /\ pc[p] = "idle"
    /\ Goto(p, "exists")
    /\ UNCHANGED <<lock, seen, alive, wrote>>
    /\ LockFrame

\* line 96: lock_path.exists()
Exists(p) ==
    /\ pc[p] = "exists"
    /\ Goto(p, IF lock = NoLock THEN "write" ELSE "read")
    /\ UNCHANGED <<lock, seen, alive, wrote>>
    /\ LockFrame

\* line 98: int(lock_path.read_text()); OSError when the file is gone
ReadPid(p) ==
    /\ pc[p] = "read"
    /\ seen' = [seen EXCEPT ![p] = lock]
    /\ Goto(p, IF lock = NoLock THEN "unlink_bad" ELSE "kill")
    /\ UNCHANGED <<lock, alive, wrote>>
    /\ LockFrame

\* lines 100-104: os.kill(pid, 0); the owner is running: return
ProbeOwner(p) ==
    /\ pc[p] = "kill"
    /\ Goto(p, IF IsRunning(seen[p]) THEN "done" ELSE "unlink_stale")
    /\ UNCHANGED <<lock, seen, alive, wrote>>
    /\ LockFrame

\* line 105: lock_path.unlink(); OSError when the file is gone
UnlinkStale(p) ==
    /\ pc[p] = "unlink_stale"
    /\ lock' = NoLock
    /\ Goto(p, IF lock = NoLock THEN "unlink_bad" ELSE "write")
    /\ UNCHANGED <<seen, alive, wrote>>
    /\ LockFrame

\* line 107: lock_path.unlink() in the handler; the exception leaves run()
UnlinkBad(p) ==
    /\ pc[p] = "unlink_bad"
    /\ lock' = NoLock
    /\ Goto(p, IF lock = NoLock THEN "done" ELSE "write")
    /\ UNCHANGED <<seen, alive, wrote>>
    /\ LockFrame

\* line 109: lock_path.write_text(str(os.getpid()))
WriteLock(p) ==
    /\ pc[p] = "write"
    /\ lock' = p
    /\ wrote' = [wrote EXCEPT ![p] = TRUE]
    /\ Goto(p, "do_run")
    /\ UNCHANGED <<seen, alive>>
    /\ LockFrame

\* line 111: _do_run returns (at its end, or early when the index is up to
\* date) or raises; either way the finally block is entered
LeaveDoRun(p) ==
    /\ pc[p] = "do_run"
    /\ \E next \in {"release", "release_raise"} : Goto(p, next)
    /\ UNCHANGED <<lock, seen, alive, wrote>>
    /\ LockFrame

\* the lock released after a return of _do_run only
Release_OnReturnOnly(p) ==
    /\ pc[p] \in {"release", "release_raise"}
    /\ lock' = IF pc[p] = "release" THEN NoLock ELSE lock
    /\ Goto(p, IF pc[p] = "release" THEN "done" ELSE "raised")
    /\ UNCHANGED <<seen, alive, wrote>>
    /\ LockFrame

\* lines 112-116: finally: lock_path.unlink(), OSError ignored; then run()
\* returns, or the exception of _do_run goes on to the caller
Release(p) ==
    /\ pc[p] \in {"release", "release_raise"}
    /\ lock' = NoLock
    /\ Goto(p, IF pc[p] = "release" THEN "done" ELSE "raised")
    /\ UNCHANGED <<seen, alive, wrote>>
    /\ LockFrame

\* the process is killed inside run(); nothing of run() executes any more
Kill(p) ==
    /\ pc[p] \notin {"idle", "done", "raised", "dead"}
    /\ alive' = [alive EXCEPT ![p] = FALSE]
    /\ Goto(p, "dead")
    /\ UNCHANGED <<lock, seen, wrote>>
    /\ LockFrame

PipeIdle ==
    /\ disk = NoDisk
    /\ files = <<>> /\ symbols = <<>> /\ edges = <<>> /\ file_edges = <<>>
    /\ clusters = {}
    /\ lastRun = NoRun
    /\ prev = [tables |-> EmptyTables, disk |-> NoDisk, force |-> FALSE,
               outcome |-> "none"]
    /\ good = [tables |-> EmptyTables, run |-> 0]
    /\ nruns = 0 /\ nedits = 0 /\ ncrashes = 0

LockInit ==
    /\ PipeIdle /\ ExtIdle /\ ResIdle /\ QueryIdle
    /\ lock \in {NoLock, StalePid}
    /\ pc = [p \in Procs |-> "idle"]
    /\ seen = [p \in Procs |-> NoLock]
    /\ alive = [p \in Procs |-> TRUE]
    /\ wrote = [p \in Procs |-> FALSE]

LockNext ==
    \E p \in Procs :
        \/ Start(p) \/ Exists(p) \/ ReadPid(p) \/ ProbeOwner(p)
        \/ UnlinkStale(p) \/ UnlinkBad(p) \/ WriteLock(p) \/ LeaveDoRun(p)
        \/ Release(p) \/ Kill(p)

SpecLock == LockInit /\ [][LockNext]_vars

-----------------------------------------------------------------------------
(* Calls of extract_symbols and extract_references on the cached extractor *)
(* instances, in any order, over the files of a tree.                      *)

PCls == [dir |-> <<"classes">>, base |-> "Foo", ext |-> ".cls"]
PCls2 == [dir |-> <<"classes">>, base |-> "Base", ext |-> ".cls"]

\* the files the extractors are called on: path and content
ExtFiles == {<<PX, "base">>, <<PY, "class">>, <<PZ, "callF">>,
             <<PCls, "class">>, <<PCls2, "base">>}

\* extractor.extract_symbols(tree, source, file_path)
CallExtractSymbols(f) ==
    LET ex == ExtractorOf(f[1])
        es == extract_symbols(ex, Body(f[2]), pending[ex])
    IN  /\ Len(es.pending) <= MaxPending
        /\ pending' = [pending EXCEPT ![ex] = es.pending]
        /\ lastCall' = [op |-> "extract_symbols", file |-> f[1], key |-> f[2],
                        refs |-> <<>>]
        /\ UNCHANGED pipeVars
        /\ UNCHANGED lockVars
        /\ UNCHANGED resVars
        /\ UNCHANGED queryVars

\* extractor.extract_references(tree, source, file_path)
CallExtractReferences(f) ==
    LET ex == ExtractorOf(f[1])
        er == extract_references(Body(f[2]), pending[ex])
    IN  /\ pending' = [pending EXCEPT ![ex] = er.pending]
        /\ lastCall' = [op |-> "extract_references", file |-> f[1], key |-> f[2],
                        refs |-> er.refs]
        /\ UNCHANGED pipeVars
        /\ UNCHANGED lockVars
        /\ UNCHANGED resVars
        /\ UNCHANGED queryVars

ExtInit == PipeIdle /\ LockIdle /\ ExtIdle /\ ResIdle /\ QueryIdle

ExtNext == \E f \in ExtFiles : CallExtractSymbols(f) \/ CallExtractReferences(f)

SpecExtract == ExtInit /\ [][ExtNext]_vars

-----------------------------------------------------------------------------
(* Calls of resolve_references on symbol dicts and references built up one *)
(* by one, the dicts as the indexer builds them (all_symbol_rows).         *)

MaxSyms == 3
MaxRefs == 2

\* files.id of the files the symbol dicts come from
ResFileId(p) == IF p = PX THEN 1 ELSE IF p = PY THEN 2 ELSE IF p = PZ THEN 3 ELSE 4

Decl(p, n, qn, k, ls, ex) ==
    [file_path |-> p, name |-> <<n>>, qualified_name |-> qn, kind |-> k,
     line_start |-> ls, is_exported |-> ex]

\* the declarations the symbol dicts are drawn from
ResDecls ==
    { Decl(PY, "g", <<"g">>, "function", 1, FALSE),
      Decl(PZ, "g", <<"g">>, "class", 4, TRUE),
      Decl(PX, "f", <<"f">>, "function", 1, TRUE),
      Decl(PZ, "f", <<"f">>, "function", 1, TRUE),
      Decl(PY, "f", <<"Bar", "f">>, "method", 3, FALSE),
      Decl(PCls, "Foo", <<"Foo">>, "class", 1, TRUE),
      Decl(PX, "Foo", <<"Foo">>, "function", 5, FALSE),
      Decl(PCls, "m", <<"Foo", "m">>, "method", 3, TRUE),
      Decl(PCls, "m", <<"Foo", "m">>, "method", 5, TRUE) }

\* import f from 'c/z'
ImportCZ == [scheme |-> "", segs |-> <<"c", "z">>, ext |-> ""]
\* import m from '@salesforce/apex/Foo.m'
ImportApex == [scheme |-> "@salesforce/apex/", segs |-> <<"Foo", "m">>, ext |-> ""]

RefIn(p, src, tgt, k, ln, ip) ==
    [source_name |-> src, target_name |-> tgt, kind |-> k, line |-> ln,
     import_path |-> ip, source_file |-> p]

\* the references handed to the resolver, in the order they are handed over
ResRefs ==
    << RefIn(PY, <<"g">>, <<"f">>, "import", 1, ImportCZ),
       RefIn(PY, <<"g">>, <<"f">>, "call", 2, NoImport),
       RefIn(PY, <<"g">>, <<"Foo">>, "call", 2, NoImport),
       RefIn(PY, <<"g">>, <<"Foo", "m">>, "call", 2, NoImport),
       RefIn(PZ, NoName, <<"Foo", "m">>, "call", 1, ImportApex),
       RefIn(PZ, NoName, <<"Foo">>, "call", 1, ImportApex) >>

\* the symbol dict the indexer builds for a declaration (indexer.py 260-269)
RowOf(d, id) ==
    [id |-> id, file_id |-> ResFileId(d.file_path), file_path |-> d.file_path,
     name |-> d.name, qualified_name |-> d.qualified_name, kind |-> d.kind,
     is_exported |-> d.is_exported, line_start |-> d.line_start]

\* one more symbol dict is appended to all_symbol_rows
AddSymbolRow ==
    \E d \in ResDecls :
        /\ ~res_out.called /\ res_refs = <<>>
        /\ Len(res_rows) < MaxSyms
        /\ \A i \in DOMAIN res_rows : res_rows[i] # RowOf(d, res_rows[i].id)
        /\ res_rows' = Append(res_rows, RowOf(d, Len(res_rows) + 1))
        /\ UNCHANGED <<res_refs, res_out>>
        /\ UNCHANGED pipeVars /\ UNCHANGED lockVars /\ UNCHANGED extVars
        /\ UNCHANGED queryVars

\* the index in ResRefs of a reference already handed over
RefIndex(r) == CHOOSE i \in DOMAIN ResRefs : ResRefs[i] = r

\* one more reference is appended to all_references
AddReference ==
    \E i \in DOMAIN ResRefs :
        /\ ~res_out.called
        /\ Len(res_refs) < MaxRefs
        /\ \A j \in DOMAIN res_refs : RefIndex(res_refs[j]) < i
        /\ res_refs' = Append(res_refs, ResRefs[i])
        /\ UNCHANGED <<res_rows, res_out>>
        /\ UNCHANGED pipeVars /\ UNCHANGED lockVars /\ UNCHANGED extVars
        /\ UNCHANGED queryVars

\* resolve_references(all_references, symbols_by_name, files_by_path)
CallResolve ==
    /\ ~res_out.called
    /\ res_out' = [called |-> TRUE,
                   edges |-> resolve_references(res_refs, res_rows),
                   found |-> [i \in DOMAIN res_refs |->
                                SourceAndTarget(res_refs[i], res_rows, res_refs)]]
    /\ UNCHANGED <<res_rows, res_refs>>
    /\ UNCHANGED pipeVars /\ UNCHANGED lockVars /\ UNCHANGED extVars
    /\ UNCHANGED queryVars

ResInit == PipeIdle /\ LockIdle /\ ExtIdle /\ ResIdle /\ QueryIdle

ResNext == AddSymbolRow \/ AddReference \/ CallResolve

SpecResolve == ResInit /\ [][ResNext]_vars

-----------------------------------------------------------------------------

Init == PipeInit /\ LockIdle /\ ExtIdle /\ ResIdle /\ QueryIdle

Next == IndexRun \/ Edit

Spec == Init /\ [][Next]_vars

\* the runs that are interrupted start from a tree that has all its files
CrashInit == Init /\ \A p \in {PX, PY, PZ} : disk[p] # NoFile

CrashNext == IndexRun \/ Edit \/ CrashedRun

SpecCrash == CrashInit /\ [][CrashNext]_vars

\* a tree of data files, a CommonJS module and a Vue component
MixedInit == TreeInit(MixedVariants) /\ LockIdle /\ ExtIdle /\ ResIdle /\ QueryIdle

MixedNext == IndexRun \/ EditMixed

SpecMixed == MixedInit /\ [][MixedNext]_vars

-----------------------------------------------------------------------------
(* The graph overlay and the commands that query it: trace (cmd_trace.py,  *)
(* pathfinding.py) and find_cycles (cycles.py).  The graph is the DiGraph   *)
(* built from the symbols and edges tables.  Where networkx leaves an order *)
(* open (paths of equal weight, components of equal size) every order is a  *)
(* possible output.                                                         *)

MaxGraphEdges == 5

\* the order a stable sort by Key gives to the elements of seq
StableSort(seq, Key(_)) ==
    LET Rank(i) == Cardinality({j \in DOMAIN seq :
                        \/ Key(seq[j]) < Key(seq[i])
                        \/ (Key(seq[j]) = Key(seq[i]) /\ j < i)}) + 1
    IN  [r \in DOMAIN seq |-> seq[CHOOSE i \in DOMAIN seq : Rank(i) = r]]

\* seq[:k]
Take(seq, k) == SubSeq(seq, 1, IF Len(seq) < k THEN Len(seq) ELSE k)

\* the sequences that list every element of the set S once
Orderings(S) ==
    {q \in [1..Cardinality(S) -> S] : \A i, j \in DOMAIN q : i # j => q[i] # q[j]}

\* build_symbol_graph: one node per symbol, one edge per (source, target)
\* pair of the edges table, carrying the kind of the last row of the pair
build_symbol_graph(t) ==
    [nodes |-> GraphNodes(t),
     edges |-> {<<t.edges[i].source_id, t.edges[i].target_id>> : i \in DOMAIN t.edges},
     rows |-> t.edges]

\* G.edges[(u, v)]["kind"]
KindOf(G, u, v) ==
    LET at == {i \in DOMAIN G.rows : G.rows[i].source_id = u /\ G.rows[i].target_id = v}
    IN  G.rows[Max(at)].kind

\* _EDGE_WEIGHTS and _ensure_weights, in tenths
_ensure_weights(kind) ==
    IF kind \in {"call", "uses_trait", "implements", "inherits", "uses", "template"}
    THEN 10
    ELSE IF kind = "import" THEN 11 ELSE 20

\* the weight of the step u -> v in G
DirectedWeight(G, u, v) == _ensure_weights(KindOf(G, u, v))

\* G.to_undirected(): the edge {u, v} carries the data of the direction that
\* is copied last, the one that leaves the node added later
UndirectedWeight(G, u, v) ==
    LET hi == IF u > v THEN u ELSE v
        lo == IF u > v THEN v ELSE u
    IN  IF <<hi, lo>> \in G.edges THEN DirectedWeight(G, hi, lo)
        ELSE DirectedWeight(G, lo, hi)

Symmetric(E) == E \cup {<<e[2], e[1]>> : e \in E}

\* the simple paths over the edge set E that extend prefix to target
RECURSIVE SimplePathsFrom(_, _, _)
SimplePathsFrom(prefix, target, E) ==
    LET last == prefix[Len(prefix)]
    IN  IF last = target THEN {prefix}
        ELSE UNION {SimplePathsFrom(Append(prefix, e[2]), target, E) :
                        e \in {d \in E : d[1] = last /\ d[2] \notin Range(prefix)}}

SimplePaths(E, source, target) == SimplePathsFrom(<<source>>, target, E)

RECURSIVE PathWeight(_, _, _, _)
PathWeight(G, p, i, directed) ==
    IF i >= Len(p) THEN 0
    ELSE (IF directed THEN DirectedWeight(G, p[i], p[i + 1])
          ELSE UndirectedWeight(G, p[i], p[i + 1]))
         + PathWeight(G, p, i + 1, directed)

\* islice(nx.shortest_simple_paths(G, s, t, weight), k): the first k simple
\* paths in an order of increasing weight
KShortest(G, P, k) ==
    LET n == IF Cardinality(P) < k THEN Cardinality(P) ELSE k
        W(p) == PathWeight(G, p, 1, TRUE)
    IN  {q \in [1..n -> P] :
            /\ \A i, j \in 1..n : i < j => q[i] # q[j] /\ W(q[i]) <= W(q[j])
            /\ \A p \in P \ Range(q) : \A i \in 1..n : W(q[i]) <= W(p)}

\* nx.shortest_path(G.to_undirected(), s, t, weight): one path of least weight
UndirectedShortest(G, P) ==
    {<<p>> : p \in {p \in P : \A o \in P : PathWeight(G, p, 1, FALSE)
                                              <= PathWeight(G, o, 1, FALSE)}}

\* find_k_paths (pathfinding.py 57-87): the lists it can return
find_k_paths(G, source_id, target_id, k) ==
    LET Fallback(P) == IF P = {} THEN {<<>>} ELSE UndirectedShortest(G, P)
        Directed(P) ==
            IF P # {} THEN KShortest(G, P, k)
            ELSE Fallback(SimplePaths(Symmetric(G.edges), source_id, target_id))
    IN  IF source_id \notin G.nodes \/ target_id \notin G.nodes THEN {<<>>}
        ELSE Directed(SimplePaths(G.edges, source_id, target_id))

\* find_symbol_id (pathfinding.py 90-116): the ids in rowid order, by name,
\* else by qualified name, else by a match inside either
find_symbol_id(syms, name) ==
    LET ByName == SelectSeq(syms, LAMBDA s : s.name = name)
        ByQualified == SelectSeq(syms, LAMBDA s : s.qualified_name = name)
        Like == SelectSeq(syms, LAMBDA s : IsInfix(name, s.name)
                                             \/ IsInfix(name, s.qualified_name))
        Ids(rows) == [i \in DOMAIN rows |-> rows[i].id]
    IN  IF ByName # <<>> THEN Ids(ByName)
        ELSE IF ByQualified # <<>> THEN Ids(ByQualified)
        ELSE Ids(Like)

\* SELECT file_id FROM symbols WHERE id = ?
FileIdOf(syms, id) == SymById(id, syms).file_id

\* lines 150-159: the direct file import shortcut
FileShortcut(t, sid, tid) ==
    IF /\ FileIdOf(t.symbols, sid) # FileIdOf(t.symbols, tid)
       /\ \E i \in DOMAIN t.file_edges :
             /\ t.file_edges[i].source_file_id = FileIdOf(t.symbols, sid)
             /\ t.file_edges[i].target_file_id = FileIdOf(t.symbols, tid)
    THEN << <<sid, tid>> >> ELSE <<>>

\* lines 144-163: all_paths, for the (sid, tid) pairs from the i-th on
RECURSIVE CollectPaths(_, _, _, _, _)
CollectPaths(t, G, pairs, i, k) ==
    IF i > Len(pairs) THEN {<<>>}
    ELSE {FileShortcut(t, pairs[i][1], pairs[i][2]) \o found \o rest :
            found \in find_k_paths(G, pairs[i][1], pairs[i][2], k),
            rest \in CollectPaths(t, G, pairs, i + 1, k)}

\* the (sid, tid) pairs in the order of the two loops, sid = tid skipped
IdPairs(src_ids, tgt_ids) ==
    LET all == [n \in 1..(Len(src_ids) * Len(tgt_ids)) |->
                  <<src_ids[((n - 1) \div Len(tgt_ids)) + 1],
                    tgt_ids[((n - 1) % Len(tgt_ids)) + 1]>>]
    IN  SelectSeq(all, LAMBDA pr : pr[1] # pr[2])

\* lines 165-174: duplicates dropped, sorted by length, cut to k
UniquePaths(all_paths, k) ==
    LET firsts == SelectSeq([i \in DOMAIN all_paths |-> i],
                     LAMBDA i : \A j \in 1..(i - 1) : all_paths[j] # all_paths[i])
        unique == [n \in DOMAIN firsts |-> all_paths[firsts[n]]]
    IN  Take(StableSort(unique, Len), k)

\* _build_hops (lines 92-107): the edge kind of every hop after the first,
\* "" where neither direction is an edge of G
_build_hops(G, path_ids) ==
    [i \in 1..(Len(path_ids) - 1) |->
        IF <<path_ids[i], path_ids[i + 1]>> \in G.edges
        THEN KindOf(G, path_ids[i], path_ids[i + 1])
        ELSE IF <<path_ids[i + 1], path_ids[i]>> \in G.edges
        THEN KindOf(G, path_ids[i + 1], path_ids[i])
        ELSE ""]

HubThreshold == 50

\* _detect_hubs (lines 32-43): the intermediate nodes of degree > threshold
_detect_hubs(G, path_ids) ==
    LET Degree(n) == Cardinality({e \in G.edges : e[1] = n})
                       + Cardinality({e \in G.edges : e[2] = n})
    IN  SelectSeq(SubSeq(path_ids, 2, Len(path_ids) - 1),
                  LAMBDA n : Degree(n) > HubThreshold)

\* round(coupling * 0.7 + directness * 0.3, 2) in hundredths, as the doubles
\* give it, by number of hops (2..5) and number of call-like edges
QualityTable ==
    << <<>>, <<30, 100>>, <<26, 60, 95>>, <<21, 44, 68, 91>>, <<17, 34, 52, 69, 86>> >>

\* _path_quality (lines 46-89) of a path without hubs, in hundredths
_path_quality(kinds, n_hops) ==
    LET named == SelectSeq(kinds, LAMBDA kd : kd # "")
        calls == Len(SelectSeq(named, LAMBDA kd : kd \in {"call", "uses", "uses_trait"}))
    IN  IF named = <<>> THEN 65 - ((n_hops - 2) * 9) \div 2
        ELSE IF Len(named) = n_hops - 1 /\ n_hops <= Len(QualityTable)
        THEN QualityTable[n_hops][calls + 1]
        ELSE (70 * calls) \div Len(named) + 30 - ((n_hops - 2) * 9) \div 2

\* lines 188-216: the paths annotated, sorted by (-quality, hops), cut to k
AnnotatedPaths(G, unique_paths, k) ==
    LET Annotated(p) ==
            [path_ids |-> p, hops |-> Len(p), kinds |-> _build_hops(G, p),
             quality |-> _path_quality(_build_hops(G, p), Len(p)),
             hub_count |-> Len(_detect_hubs(G, p))]
        SortKey(ap) == (100 - ap.quality) * 100 + ap.hops
    IN  Take(StableSort([i \in DOMAIN unique_paths |-> Annotated(unique_paths[i])],
                        SortKey), k)

\* trace (lines 110-216): the path lists the command can print
trace(t, source, target, k) ==
    LET Ranked(G, src_ids, tgt_ids) ==
            {AnnotatedPaths(G, UniquePaths(all_paths, k), k) :
                all_paths \in CollectPaths(t, G, IdPairs(src_ids, tgt_ids), 1, k)}
    IN  Ranked(build_symbol_graph(t), find_symbol_id(t.symbols, source),
               find_symbol_id(t.symbols, target))

\* find_cycles with the components in growing order of size
find_cycles_Ascending(G, min_size) ==
    LET Reaches(u, v) == SimplePaths(G.edges, u, v) # {}
        Component(n) == {m \in G.nodes : Reaches(n, m) /\ Reaches(m, n)}
        sccs == {c \in {Component(n) : n \in G.nodes} : Cardinality(c) >= min_size}
    IN  {StableSort(q, Cardinality) : q \in Orderings(sccs)}

\* find_cycles (cycles.py 10-25): the strongly connected components of at
\* least min_size nodes, largest first; components of one size keep the
\* order nx.strongly_connected_components yields them in
find_cycles(G, min_size) ==
    LET Reaches(u, v) == SimplePaths(G.edges, u, v) # {}
        Component(n) == {m \in G.nodes : Reaches(n, m) /\ Reaches(m, n)}
        sccs == {c \in {Component(n) : n \in G.nodes} : Cardinality(c) >= min_size}
        BySize(c) == 0 - Cardinality(c)
    IN  IF G.nodes = {} THEN {<<>>}
        ELSE {StableSort(q, BySize) : q \in Orderings(sccs)}

\* the index the commands are run on: five functions in three files
GraphSymbol(id, file_id, n) ==
    [id |-> id, file_id |-> file_id, name |-> <<n>>, qualified_name |-> <<n>>,
     kind |-> "function", line_start |-> id * 10, line_end |-> id * 10 + 5,
     is_exported |-> TRUE, parent_id |-> 0]

GraphSymbols ==
    << GraphSymbol(1, 1, "a"), GraphSymbol(2, 2, "m"), GraphSymbol(3, 2, "t"),
       GraphSymbol(4, 1, "t"), GraphSymbol(5, 3, "n") >>

GraphFiles ==
    [i \in 1..3 |-> [id |-> i, path |-> AllPaths[i], hash |-> file_hash("defF")]]

\* the edges the resolver can have found, in the order of the edges table
EdgeChoice(u, v, kinds) == [source_id |-> u, target_id |-> v, kinds |-> kinds]

GraphEdges ==
    << EdgeChoice(1, 2, {"call", "import"}), EdgeChoice(1, 5, {"call"}),
       EdgeChoice(2, 3, {"call", "import"}), EdgeChoice(2, 4, {"call"}),
       EdgeChoice(5, 3, {"call"}), EdgeChoice(5, 4, {"call"}),
       EdgeChoice(1, 3, {"call", "import"}), EdgeChoice(3, 1, {"call"}),
       EdgeChoice(4, 2, {"call"}), EdgeChoice(4, 5, {"call"}),
       EdgeChoice(5, 2, {"call"}) >>

EdgeIndex(e) ==
    CHOOSE i \in DOMAIN GraphEdges :
        GraphEdges[i].source_id = e.source_id /\ GraphEdges[i].target_id = e.target_id

\* an indexing run has found one more edge; the file edges follow
InsertEdge ==
    \E i \in DOMAIN GraphEdges : \E kd \in GraphEdges[i].kinds :
        LET row == [source_id |-> GraphEdges[i].source_id,
                    target_id |-> GraphEdges[i].target_id, kind |-> kd,
                    line |-> GraphEdges[i].source_id * 10 + 1]
        IN  /\ cmd_out = NoCmd
            /\ Len(edges) < MaxGraphEdges
            /\ \A j \in DOMAIN edges : EdgeIndex(edges[j]) < i
            /\ edges' = Append(edges, row)
            /\ file_edges' = build_file_edges(Append(edges, row), symbols)
            /\ UNCHANGED <<disk, files, symbols, clusters, lastRun, prev, good,
                           nruns, nedits, ncrashes, cmd_out>>
            /\ UNCHANGED flowVars /\ UNCHANGED vueVars
            /\ UNCHANGED lockVars /\ UNCHANGED extVars /\ UNCHANGED resVars

\* roam trace SOURCE TARGET -k K
CallTrace ==
    \E source \in {<<"a">>}, target \in {<<"t">>, <<"m">>}, k \in {1, 3} :
        \E paths \in trace(Tables, source, target, k) :
            /\ cmd_out' = [cmd |-> "trace", source |-> source, target |-> target,
                           k |-> k, paths |-> paths, cycles |-> <<>>]
            /\ UNCHANGED pipeVars /\ UNCHANGED flowVars /\ UNCHANGED vueVars
            /\ UNCHANGED lockVars /\ UNCHANGED extVars /\ UNCHANGED resVars

\* find_cycles(G), as roam health and roam describe call it
CallFindCycles ==
    \E cycles \in find_cycles(build_symbol_graph(Tables), 2) :
        /\ cmd_out' = [cmd |-> "find_cycles", source |-> NoName, target |-> NoName,
                       k |-> 0, paths |-> <<>>, cycles |-> cycles]
        /\ UNCHANGED pipeVars /\ UNCHANGED flowVars /\ UNCHANGED vueVars
        /\ UNCHANGED lockVars /\ UNCHANGED extVars /\ UNCHANGED resVars

GraphInit ==
    /\ disk = NoDisk
    /\ files = GraphFiles /\ symbols = GraphSymbols
    /\ edges = <<>> /\ file_edges = <<>> /\ clusters = {}
    /\ lastRun = NoRun
    /\ prev = [tables |-> EmptyTables, disk |-> NoDisk, force |-> FALSE,
               outcome |-> "none"]
    /\ good = [tables |-> EmptyTables, run |-> 0]
    /\ nruns = 0 /\ nedits = 0 /\ ncrashes = 0
    /\ LockIdle /\ ExtIdle /\ ResIdle /\ QueryIdle

GraphNext == InsertEdge \/ CallTrace \/ CallFindCycles

SpecGraph == GraphInit /\ [][GraphNext]_vars

-----------------------------------------------------------------------------
(* SalesforceXmlExtractor.extract_references (sfxml_lang.py) over a Flow      *)
(* metadata file.  An XML element is its tag, its text ("" when it has       *)
(* none), its child elements and the line of its start tag.                  *)

MaxActionCalls == 3

Element(tag, text, children, line) ==
    [tag |-> tag, text |-> text, children |-> children, line |-> line]

\* _ALWAYS_REF_TAGS (lines 116-127)
_ALWAYS_REF_TAGS ==
    {"apexClass", "apexPage", "apexComponent", "apexTrigger", "triggerType",
     "template", "customObject", "referenceTo", "relatedList", "relationshipName",
     "lookupFilter", "actionName", "flowName", "targetWorkflow"}

\* _CONTEXT_REF_PARENTS (lines 130-146): the parents under which the tag is a
\* reference
_CONTEXT_REF_PARENTS(tag) ==
    CASE tag = "field" -> {"fieldPermissions", "layoutItems", "columns",
                           "WorkflowFieldUpdate", "sortField",
                           "searchResultsAdditionalFields", "displayedFields",
                           "filterItems"}
      [] tag = "object" -> {"fieldPermissions", "objectPermissions", "listViews",
                            "searchLayouts"}
      [] tag = "class" -> {"classAccesses"}
      [] tag = "name" -> {"actionOverrides"}
      [] OTHER -> {}

\* _walk_xml_refs (lines 222-273) on an element: the references of the element
\* itself, then those of its children with the element's tag as parent_tag.
\* (Formula elements do not occur in the documents modelled.)
RECURSIVE _walk_xml_refs(_, _)
_walk_xml_refs(node, parent_tag) ==
    LET RECURSIVE Children(_)
        Children(i) ==
            IF i > Len(node.children) THEN <<>>
            ELSE _walk_xml_refs(node.children[i], node.tag) \o Children(i + 1)
        own == IF node.tag \in _ALWAYS_REF_TAGS
               THEN IF node.text # ""
                    THEN << Ref(NoName, <<node.text>>, "reference", node.line) >>
                    ELSE <<>>
               ELSE IF /\ _CONTEXT_REF_PARENTS(node.tag) # {}
                       /\ parent_tag \in _CONTEXT_REF_PARENTS(node.tag)
                       /\ node.text # ""
               THEN << Ref(NoName, <<node.text>>, "reference", node.line) >>
               ELSE <<>>
    IN  own \o Children(1)

\* the actionCalls elements a Flow can hold: name, actionName, actionType
ActionCalls ==
    [name : {"Invoke_Handler"},
     actionName : {"OrderProcessor", "emailSimple", ""},
     actionType : {"apex", "emailSimple", "flow"}]

\* the document: <Flow> on line 2, every <actionCalls> on five lines
FlowDocument(elements) ==
    Element("Flow", "",
        [i \in DOMAIN elements |->
            Element("actionCalls", "",
                << Element("name", elements[i].name, <<>>, 5 * i - 1),
                   Element("actionName", elements[i].actionName, <<>>, 5 * i),
                   Element("actionType", elements[i].actionType, <<>>, 5 * i + 1) >>,
                5 * i - 2)],
        2)

\* one more <actionCalls> element is written into the Flow
AddActionCalls ==
    \E e \in ActionCalls :
        /\ ~flow_refs.called
        /\ Len(flow) < MaxActionCalls
        /\ flow' = Append(flow, e)
        /\ UNCHANGED <<flow_refs, cmd_out>>
        /\ UNCHANGED pipeVars /\ UNCHANGED vueVars
        /\ UNCHANGED lockVars /\ UNCHANGED extVars /\ UNCHANGED resVars

\* extractor.extract_references(tree, source, "flows/X.flow-meta.xml")
CallFlowReferences ==
    /\ ~flow_refs.called
    /\ flow_refs' = [called |-> TRUE,
                     refs |-> _walk_xml_refs(FlowDocument(flow), "")]
    /\ UNCHANGED <<flow, cmd_out>>
    /\ UNCHANGED pipeVars /\ UNCHANGED vueVars
    /\ UNCHANGED lockVars /\ UNCHANGED extVars /\ UNCHANGED resVars

FlowInit == PipeIdle /\ LockIdle /\ ExtIdle /\ ResIdle /\ QueryIdle

FlowNext == AddActionCalls \/ CallFlowReferences

SpecFlow == FlowInit /\ [][FlowNext]_vars

-----------------------------------------------------------------------------
(* extract_vue_template (parser.py 207-245).  The source of a component is  *)
(* the sequence of its pieces:                                               *)
(*   "open"      <template> or <template attrs>                              *)
(*   "self"      <template attrs /> or <template />                          *)
(*   "selfbare"  <template/>                                                 *)
(*   "close"     </template>                                                 *)
(*   "text"      any text without a template tag and without a newline       *)
(*   "nl"        a newline                                                   *)

MaxPieces == 5

Pieces == {"open", "self", "selfbare", "close", "text", "nl"}

\* re.search(r'<template(\s[^>]*)?>', text): the pieces the pattern matches;
\* [^>]* takes the slash of a self-closing tag that has white space
OuterOpenMatches(piece) == piece \in {"open", "self"}

\* group 3 of r'<(/?)template\b([^>]*?)(/?)>' is '/'
IsSelfClosing(piece) == piece \in {"self", "selfbare"}

\* the result tuple, or None
NoTemplate == [found |-> FALSE, content |-> <<>>, start_line |-> 0]

\* lines 226-241: the scan of the tags after the outer open tag, from piece i
\* on, at the given depth
RECURSIVE ScanTags(_, _, _, _)
ScanTags(text, content_start, i, depth) ==
    IF i > Len(text) THEN NoTemplate
    ELSE IF text[i] \in {"text", "nl"} \/ IsSelfClosing(text[i])
    THEN ScanTags(text, content_start, i + 1, depth)
    ELSE IF text[i] = "close"
    THEN IF depth - 1 = 0
         THEN [found |-> TRUE,
               content |-> SubSeq(text, content_start, i - 1),
               start_line |->
                   Cardinality({j \in 1..(content_start - 1) : text[j] = "nl"}) + 1]
         ELSE ScanTags(text, content_start, i + 1, depth - 1)
    ELSE ScanTags(text, content_start, i + 1, depth + 1)

\* extract_vue_template(source)
extract_vue_template(text) ==
    LET opens == {i \in DOMAIN text : OuterOpenMatches(text[i])}
    IN  IF opens = {} THEN NoTemplate
        ELSE ScanTags(text, Min(opens) + 1, Min(opens) + 1, 1)

\* one more piece is written to the component
AddPiece ==
    \E piece \in Pieces :
        /\ ~vue_out.called
        /\ Len(vue_src) < MaxPieces
        /\ vue_src' = Append(vue_src, piece)
        /\ UNCHANGED <<vue_out, cmd_out>>
        /\ UNCHANGED pipeVars /\ UNCHANGED flowVars
        /\ UNCHANGED lockVars /\ UNCHANGED extVars /\ UNCHANGED resVars

\* extract_vue_template(source), as the indexer calls it for a .vue file
CallExtractVueTemplate ==
    /\ ~vue_out.called
    /\ vue_out' = [called |-> TRUE,
                   found |-> extract_vue_template(vue_src).found,
                   content |-> extract_vue_template(vue_src).content,
                   start_line |-> extract_vue_template(vue_src).start_line]
    /\ UNCHANGED <<vue_src, cmd_out>>
    /\ UNCHANGED pipeVars /\ UNCHANGED flowVars
    /\ UNCHANGED lockVars /\ UNCHANGED extVars /\ UNCHANGED resVars

VueInit == PipeIdle /\ LockIdle /\ ExtIdle /\ ResIdle /\ QueryIdle

VueNext == AddPiece \/ CallExtractVueTemplate

SpecVue == VueInit /\ [][VueNext]_vars

-----------------------------------------------------------------------------
(* Properties of the indexing pipeline *)

Succeeded(o) == o \in {"ok", "uptodate"}

Core(t) == [files |-> t.files, symbols |-> t.symbols, edges |-> t.edges]

\* a list as a multiset
BagOf(s) == [x \in Range(s) |-> Cardinality({i \in DOMAIN s : s[i] = x})]

\* (path, name, qualified_name, kind, line_start) of the symbol with this id
SymTuple(t, id) ==
    LET s == t.symbols[CHOOSE i \in DOMAIN t.symbols : t.symbols[i].id = id]
        f == t.files[CHOOSE i \in DOMAIN t.files : t.files[i].id = s.file_id]
    IN  <<f.path, s.name, s.qualified_name, s.kind, s.line_start>>

\* the tables without their row ids
Canon(t) ==
    [files |-> BagOf([i \in DOMAIN t.files |-> <<t.files[i].path, t.files[i].hash>>]),
     symbols |-> BagOf([i \in DOMAIN t.symbols |-> SymTuple(t, t.symbols[i].id)]),
     edges |-> BagOf([i \in DOMAIN t.edges |->
                        <<SymTuple(t, t.edges[i].source_id),
                          SymTuple(t, t.edges[i].target_id),
                          t.edges[i].kind, t.edges[i].line>>])]

\* what a forced full rebuild of tree dk leaves
FullBuild(dk) == Pipeline(TRUE, EmptyTables, dk, [e \in Extractors |-> <<>>]).tables

\* tree d2 is tree d1 with the content of exactly one file changed
OneModified(d1, d2) ==
    \E p \in Paths : /\ d1[p] # NoFile /\ d2[p] # NoFile /\ d1[p] # d2[p]
                     /\ \A q \in Paths \ {p} : d1[q] = d2[q]

\* tree d2 is tree d1 with file p deleted
OneRemoved(d1, d2, p) ==
    /\ d1[p] # NoFile /\ d2[p] = NoFile
    /\ \A q \in Paths \ {p} : d1[q] = d2[q]

\* the last run was an incremental run that returned, right after a run that returned
IncrementalAfterGood == /\ ~lastRun.force /\ Succeeded(lastRun.outcome)
                        /\ Succeeded(prev.outcome)

\* C2: after a full build, changing the content of exactly one file and
\* running an incremental index leaves files, symbols and edges equal, row
\* ids aside, to what a forced full rebuild of the same tree produces
C2_IncrementalEqualsFullRebuild ==
    (IncrementalAfterGood /\ prev.force /\ OneModified(prev.disk, lastRun.disk))
        => Canon(Tables) = Canon(FullBuild(lastRun.disk))

\* path of the file with this id
PathOfFile(t, id) == t.files[CHOOSE i \in DOMAIN t.files : t.files[i].id = id].path

\* the file edges without their row ids
CanonFileEdges(t) ==
    BagOf([i \in DOMAIN t.file_edges |->
              <<PathOfFile(t, t.file_edges[i].source_file_id),
                PathOfFile(t, t.file_edges[i].target_file_id),
                t.file_edges[i].kind, t.file_edges[i].symbol_count>>])

\* the last run was an incremental run after a forced full build, and found
\* files added or removed but none modified
AddRemoveOnly ==
    /\ IncrementalAfterGood /\ prev.force
    /\ lastRun.cls.modified = <<>>
    /\ lastRun.cls.added # <<>> \/ lastRun.cls.removed # <<>>

\* C30: after an incremental run in which files were only added or removed,
\* none modified, the edges and the file edges equal, row ids aside, those a
\* forced full rebuild of the same tree produces
C30_AddRemoveEqualsFullRebuild ==
    AddRemoveOnly =>
        /\ Canon(Tables).edges = Canon(FullBuild(lastRun.disk)).edges
        /\ CanonFileEdges(Tables) = CanonFileEdges(FullBuild(lastRun.disk))

\* C3: a run ended by an exception or a cancellation leaves files, symbols
\* and edges exactly as the previous successful run left them
C3_InterruptedRunKeepsIndex ==
    (lastRun.outcome = "failed" /\ good.run > 0) => Core(Tables) = Core(good.tables)

\* C4: a non-force run with no file added, modified or removed since the
\* previous successful run writes nothing to files, symbols or edges
C4_NoopIncrementalWritesNothing ==
    (IncrementalAfterGood /\ prev.disk = lastRun.disk)
        => (lastRun.nwrites = 0 /\ Core(Tables) = Core(prev.tables))

C4_Witness ==
    /\ IncrementalAfterGood /\ prev.disk = lastRun.disk
    /\ prev.outcome = "ok" /\ edges # <<>>

\* the ids of the symbols of file p in tables t
SymbolsOfPath(t, p) ==
    {t.symbols[i].id : i \in {j \in DOMAIN t.symbols :
        \E k \in DOMAIN t.files : /\ t.files[k].path = p
                                  /\ t.files[k].id = t.symbols[j].file_id}}

\* C5: deleting a file and running an incremental index removes exactly that
\* file's row, its symbols and the edges incident to them, and nothing else
C5_DeleteRemovesExactlyThatFile ==
    \A p \in Paths :
        (IncrementalAfterGood /\ OneRemoved(prev.disk, lastRun.disk, p))
            => LET gone == SymbolsOfPath(prev.tables, p)
               IN  /\ files = SelectSeq(prev.tables.files, LAMBDA f : f.path # p)
                   /\ symbols = SelectSeq(prev.tables.symbols, LAMBDA s : s.id \notin gone)
                   /\ edges = SelectSeq(prev.tables.edges,
                                LAMBDA e : e.source_id \notin gone /\ e.target_id \notin gone)

C5_Witness ==
    \E p \in Paths :
        /\ IncrementalAfterGood /\ OneRemoved(prev.disk, lastRun.disk, p)
        /\ \E i \in DOMAIN prev.tables.edges :
              prev.tables.edges[i].source_id \in SymbolsOfPath(prev.tables, p)
        /\ edges # <<>>
        /\ Len(edges) < Len(prev.tables.edges)

SymbolIds == {symbols[i].id : i \in DOMAIN symbols}

\* C6: every row of edges has a source id and a target id of rows of symbols
C6_EdgeEndpointsExist ==
    \A i \in DOMAIN edges : edges[i].source_id \in SymbolIds
                            /\ edges[i].target_id \in SymbolIds

C6_Witness ==
    /\ ~lastRun.force /\ lastRun.outcome = "ok" /\ lastRun.cls.modified # <<>>
    /\ edges # <<>>
    /\ \E i \in DOMAIN prev.tables.edges :
          prev.tables.edges[i].target_id \notin SymbolIds

\* C7: no row of edges has its source symbol equal to its target symbol
C7_NoSelfEdges == \A i \in DOMAIN edges : edges[i].source_id # edges[i].target_id

C7_Witness ==
    /\ lastRun.outcome = "ok" /\ lastRun.disk[PZ] = "callF"
    /\ \E i \in DOMAIN edges : edges[i].kind = "call"

\* C8: edges has no two rows with the same (source, target, kind)
C8_EdgeTriplesUnique ==
    \A i, j \in DOMAIN edges : EdgeKey(edges[i]) = EdgeKey(edges[j]) => i = j

FileOfSymbol(id) == symbols[CHOOSE i \in DOMAIN symbols : symbols[i].id = id].file_id

\* the number of edges from a symbol of file fs to a symbol of file ft
EdgesBetween(fs, ft) ==
    Cardinality({i \in DOMAIN edges : /\ edges[i].source_id \in SymbolIds
                                      /\ edges[i].target_id \in SymbolIds
                                      /\ FileOfSymbol(edges[i].source_id) = fs
                                      /\ FileOfSymbol(edges[i].target_id) = ft})

FileIds == {files[i].id : i \in DOMAIN files}

\* C9: file_edges is the aggregation of edges: one row for each ordered pair
\* of distinct files joined by an edge, carrying the number of those edges,
\* and no other row
C9_FileEdgesAggregateEdges ==
    /\ \A fs, ft \in FileIds :
          (fs # ft /\ EdgesBetween(fs, ft) > 0)
              => Cardinality({i \in DOMAIN file_edges :
                     /\ file_edges[i].source_file_id = fs
                     /\ file_edges[i].target_file_id = ft}) = 1
    /\ \A i \in DOMAIN file_edges :
          /\ file_edges[i].source_file_id \in FileIds
          /\ file_edges[i].target_file_id \in FileIds
          /\ file_edges[i].source_file_id # file_edges[i].target_file_id
          /\ file_edges[i].symbol_count =
                EdgesBetween(file_edges[i].source_file_id, file_edges[i].target_file_id)
          /\ file_edges[i].symbol_count > 0

\* the rows of symbols that belong to file p
SymbolRowsOf(p) ==
    {symbols[i] : i \in {j \in DOMAIN symbols :
                            symbols[j].id \in SymbolsOfPath(Tables, p)}}

\* the symbols of file p whose [line_start, line_end] holds line ln
Containing(p, ln) ==
    {sy \in SymbolRowsOf(p) : sy.line_start <= ln /\ ln <= sy.line_end}

\* the most nested of them: no other one starts after it
Innermost(p, ln) ==
    CHOOSE sy \in Containing(p, ln) :
        \A t \in Containing(p, ln) : t.line_start <= sy.line_start

\* C15: in an indexing run, a reference that carries no source name and
\* whose line lies inside the [line_start, line_end] range of one or more
\* symbols of its file gets as its edge source the innermost of those
\* containing symbols, even when another symbol starts nearer before the line
C15_InnermostContainerIsSource ==
    Succeeded(lastRun.outcome) =>
        \A p \in Paths : lastRun.disk[p] # NoFile =>
            \A r \in Range(Body(lastRun.disk[p]).refs) :
                (r.source_name = NoName /\ Containing(p, r.line) # {}) =>
                    \A e \in Range(edges) :
                        (/\ e.kind = r.kind /\ e.line = r.line
                         /\ e.source_id \in SymbolsOfPath(Tables, p))
                            => e.source_id = Innermost(p, r.line).id

\* C16: after indexing a Vue single-file component whose script defines a
\* function handleClick and whose template has an event binding to
\* handleClick, edges holds at least one template-kind edge whose target is
\* handleClick
C16_TemplateEdgeToHandler ==
    (Succeeded(lastRun.outcome) /\ lastRun.disk[PV] \in {"vue", "vue2"}) =>
        \E e \in Range(edges) :
            /\ e.kind = "template"
            /\ \E sy \in SymbolRowsOf(PV) :
                  sy.id = e.target_id /\ sy.name = <<"handleClick">>

\* the files of the trees no symbols can be extracted from: no grammar, or
\* no extractor for the language
Unparsed == {PJ, PL}

\* the files the last run selected for processing
Selected == Range(lastRun.cls.added) \cup Range(lastRun.cls.modified)

\* C20: for every readable file selected for processing a files row with
\* its path and hash is inserted, also when no grammar is available for it
\* or the extractor lookup fails; then no symbols are inserted for the file,
\* and the run goes on with the remaining files, whose symbols are inserted
C20_UnparsedFileIsRegistered ==
    lastRun.outcome = "ok" =>
        \A p \in Selected :
            /\ Cardinality({i \in DOMAIN files :
                    /\ files[i].path = p
                    /\ files[i].hash = file_hash(lastRun.disk[p])}) = 1
            /\ Cardinality(SymbolRowsOf(p)) =
                    IF p \in Unparsed THEN 0 ELSE Len(Body(lastRun.disk[p]).syms)

\* a file without grammar and a file without extractor are processed, then
\* a module whose symbols are inserted
C20_Witness ==
    /\ lastRun.outcome = "ok"
    /\ {PJ, PL, PM} \subseteq Selected
    /\ SymbolRowsOf(PM) # {}
    /\ SymbolRowsOf(PJ) = {} /\ SymbolRowsOf(PL) = {}
    /\ \E i, j \in DOMAIN files : files[i].path = PJ /\ files[j].path = PL

-----------------------------------------------------------------------------
(* Properties of the lock protocol *)

InDoRun == {p \in Procs : pc[p] = "do_run"}

\* C1: of the Indexer.run invocations on one project root, at most one is
\* inside _do_run at any time
C1_OneIndexerInDoRun == Cardinality(InDoRun) <= 1

\* no other invocation of run() is under way or has been
Alone(p) == \A q \in Procs \ {p} : pc[q] = "idle"

Exited(p) == pc[p] \in {"done", "raised"}

\* C28: whenever Indexer.run has written the lock file, the lock file it
\* wrote no longer exists once run has exited, by a return of _do_run (at its
\* end or early, the index being up to date) or by an exception raised in it;
\* and only a run that has written the lock reaches the finally block.
C28_LockGoneAfterExit ==
    \A p \in Procs :
        /\ (Exited(p) /\ wrote[p]) => lock # p
        /\ (pc[p] \in {"release", "release_raise"} => wrote[p])

\* one run has exited by an exception and another by a return, both having
\* written the lock
C28_Witness ==
    \E p, q \in Procs :
        /\ pc[p] = "raised" /\ wrote[p]
        /\ pc[q] = "done" /\ wrote[q]
        /\ lock = NoLock

\* p is inside run()
InRun(p) == pc[p] \notin {"idle", "done", "raised", "dead"}

\* C29: a step of an indexer process never deletes or overwrites a lock file
\* whose content is the pid of a different indexer that is still running.
C29_NeverTouchesForeignLock ==
    [][\A p \in Procs :
          (pc'[p] # pc[p] /\ lock' # lock)
            => ~(lock \in Procs \ {p} /\ IsRunning(lock) /\ InRun(lock))]_vars

-----------------------------------------------------------------------------
(* Properties of the extractors *)

\* the references of a file's own declarations and statements
OwnRefs(key) == Range(Body(key).refs) \cup Range(Body(key).inherits)

\* C10: the references extract_references returns for a file hold nothing
\* that was buffered while another file's symbols were walked
C10_NoForeignPendingRefs ==
    lastCall.op = "extract_references" => Range(lastCall.refs) \subseteq OwnRefs(lastCall.key)

-----------------------------------------------------------------------------
(* Properties of the resolver *)

\* the ids of the symbol dicts with this qualified name
WithQualifiedName(qn) ==
    {res_rows[i].id : i \in {j \in DOMAIN res_rows : res_rows[j].qualified_name = qn}}

\* the symbol dicts with this simple name that satisfy In, in the order of the list
NamedIn(target, In(_)) ==
    SelectSeq(res_rows, LAMBDA s : s.name = target /\ In(s.file_path))

RowWithId(id) == res_rows[CHOOSE i \in DOMAIN res_rows : res_rows[i].id = id]

\* the reference has found its source symbol and its target name is the
\* qualified name of exactly one symbol, q
UniquelyQualified(i, q) ==
    /\ res_out.called
    /\ res_out.found[i].src # 0
    /\ WithQualifiedName(res_refs[i].target_name) = {q}

\* an edge of the reference's kind from the source found to the target found
\* was returned, unless the two are the same symbol
EdgeReturned(i) ==
    LET fnd == res_out.found[i]
    IN  fnd.src # fnd.tgt =>
            \E e \in Range(res_out.edges) :
                /\ e.source_id = fnd.src /\ e.target_id = fnd.tgt
                /\ e.kind = res_refs[i].kind

DefiningFiles(name) ==
    {res_rows[i].file_path : i \in {j \in DOMAIN res_rows : res_rows[j].name = name}}

\* the import path names this file: its segments are the file's directory and
\* base name
NamesFile(ip, p) == ip.scheme = "" /\ ip.segs = Append(p.dir, p.base)

\* reference i is a call of a name that reference j imports into the same
\* file, two other files define the name, and the import path names only
\* file p
CallOfImported(i, j, p) ==
    /\ res_out.called
    /\ res_refs[i].kind = "call" /\ res_refs[j].kind = "import"
    /\ res_refs[i].source_file = res_refs[j].source_file
    /\ res_refs[i].target_name = res_refs[j].target_name
    /\ res_out.found[i].src # 0
    /\ Cardinality(DefiningFiles(res_refs[i].target_name)) = 2
    /\ res_refs[i].source_file \notin DefiningFiles(res_refs[i].target_name)
    /\ {q \in DefiningFiles(res_refs[i].target_name) :
            NamesFile(res_refs[j].import_path, q)} = {p}

\* C12: when two files each define a symbol of the same name and the calling
\* file imports that name with an import path that matches only one of the
\* two files, the resolved call edge targets the symbol in the imported file
C12_ImportPathPrecedence ==
    \A i, j \in DOMAIN res_refs : \A p \in DefiningFiles(res_refs[i].target_name) :
        CallOfImported(i, j, p) =>
            /\ res_out.found[i].tgt # 0
            /\ RowWithId(res_out.found[i].tgt).file_path = p

\* the ids of the classes with this simple name
ClassesNamed(name) ==
    {res_rows[i].id : i \in {j \in DOMAIN res_rows :
        res_rows[j].name = name /\ res_rows[j].kind = "class"}}

\* C13: a call-kind reference to a name Foo, when a symbol of kind class
\* named Foo exists, resolves to a class symbol named Foo and never to a
\* function (or other non-class symbol) named Foo
C13_CallResolvesToClass ==
    \A i \in DOMAIN res_refs :
        (/\ res_out.called
         /\ res_refs[i].kind = "call"
         /\ res_out.found[i].src # 0
         /\ ClassesNamed(res_refs[i].target_name) # {})
            => res_out.found[i].tgt \in ClassesNamed(res_refs[i].target_name)

\* C14: for every edge produced by resolve_references, the source symbol
\* belongs to the file named by the reference's source_file
C14_SourceInReferenceFile ==
    \A i \in DOMAIN res_refs :
        (/\ res_out.called
         /\ res_out.found[i].src # 0 /\ res_out.found[i].tgt # 0
         /\ res_out.found[i].src # res_out.found[i].tgt)
            => RowWithId(res_out.found[i].src).file_path = res_refs[i].source_file

\* C17: a reference whose target name is a qualified name shared by two or
\* more symbols and whose source symbol resolves is not dropped: exactly one
\* edge is returned for it, targeting one of the symbols with that
\* qualified name
C17_OverloadedNameKeepsEdge ==
    \A i \in DOMAIN res_refs :
        (/\ res_out.called
         /\ Len(res_refs) = 1
         /\ res_out.found[i].src # 0
         /\ res_out.found[i].src \notin WithQualifiedName(res_refs[i].target_name)
         /\ Cardinality(WithQualifiedName(res_refs[i].target_name)) >= 2)
            => /\ Len(res_out.edges) = 1
               /\ res_out.edges[1].target_id \in WithQualifiedName(res_refs[i].target_name)

\* references i and j are the two references of one import from
\* '@salesforce/apex/Class.method': i names the method, j the class
ApexImportPair(i, j) ==
    /\ res_refs[i].import_path.scheme = "@salesforce/apex/"
    /\ res_refs[j].import_path = res_refs[i].import_path
    /\ res_refs[j].source_file = res_refs[i].source_file
    /\ res_refs[i].kind = "call" /\ res_refs[j].kind = "call"
    /\ res_refs[i].target_name = res_refs[i].import_path.segs
    /\ res_refs[j].target_name = <<Head(res_refs[i].import_path.segs)>>

\* the ids of the classes with this qualified name
ClassesQualified(qn) ==
    {res_rows[i].id : i \in {j \in DOMAIN res_rows :
        res_rows[j].qualified_name = qn /\ res_rows[j].kind = "class"}}

\* the component file has a symbol, one method has the qualified name
\* Class.method, a class has the qualified name Class, and neither the
\* component file nor its directory has a symbol named Class
ApexTargetsIndexed(i, j) ==
    /\ res_out.called
    /\ \E k \in DOMAIN res_rows : res_rows[k].file_path = res_refs[i].source_file
    /\ Cardinality(WithQualifiedName(res_refs[i].target_name)) = 1
    /\ ClassesQualified(res_refs[j].target_name) # {}
    /\ NamedIn(res_refs[j].target_name,
               LAMBDA p : p.dir = res_refs[i].source_file.dir) = <<>>

-----------------------------------------------------------------------------
(* Derived tables *)

\* C21: after every indexing run that returns having rebuilt the index, the
\* clusters table holds exactly one row per node of that run's graph, each
\* written by that run: no row written by an earlier run survives.
C21_ClustersAreThisRunsRows ==
    lastRun.outcome = "ok"
        => clusters = {[symbol_id |-> n, written_by |-> nruns] :
                          n \in GraphNodes(Tables)}

\* C25: for every edge of the index whose source symbol has a declared line
\* range, the line of the edge lies within [line_start, line_end] of that
\* source symbol.
C25_EdgeLineInsideSource ==
    \A i \in DOMAIN edges : \A j \in DOMAIN symbols :
        (symbols[j].id = edges[i].source_id
           /\ symbols[j].line_start > 0 /\ symbols[j].line_end > 0)
            => /\ symbols[j].line_start <= edges[i].line
               /\ edges[i].line <= symbols[j].line_end

-----------------------------------------------------------------------------
(* Properties of the graph queries *)

\* the graph the last command ran on
QueriedGraph == build_symbol_graph(Tables)

\* a two-node path that no symbol edge carries
Synthetic(ap) == ap.hops = 2 /\ ap.kinds = <<"">>

FileEdgeJoins(src_fid, tgt_fid) ==
    \E i \in DOMAIN file_edges :
        /\ file_edges[i].source_file_id = src_fid
        /\ file_edges[i].target_file_id = tgt_fid

\* C22: the path list of trace holds the synthetic two-node path
\* [source, target] only when a file edge joins the file of the source to the
\* file of the target and no symbol-level path leads from source to target.
C22_ShortcutOnlyWithoutSymbolPath ==
    cmd_out.cmd = "trace"
        => \A i \in DOMAIN cmd_out.paths :
              Synthetic(cmd_out.paths[i])
                => LET ids == cmd_out.paths[i].path_ids
                   IN  /\ FileEdgeJoins(FileIdOf(symbols, ids[1]),
                                        FileIdOf(symbols, ids[2]))
                       /\ SimplePaths(QueriedGraph.edges, ids[1], ids[2]) = {}

\* a is before b, or equal to it, in lexicographic order
RECURSIVE LexLeq(_, _)
LexLeq(a, b) ==
    IF a = <<>> THEN TRUE
    ELSE IF b = <<>> THEN FALSE
    ELSE IF Head(a) # Head(b) THEN Head(a) < Head(b)
    ELSE LexLeq(Tail(a), Tail(b))

\* C23: the paths trace returns are ordered by quality descending, then hop
\* count ascending, then node ids in ascending lexicographic order.
C23_PathsOrderedByQualityHopsIds ==
    cmd_out.cmd = "trace"
        => \A i, j \in DOMAIN cmd_out.paths :
              i < j =>
                LET a == cmd_out.paths[i]
                    b == cmd_out.paths[j]
                IN  \/ a.quality > b.quality
                    \/ a.quality = b.quality /\ a.hops < b.hops
                    \/ a.quality = b.quality /\ a.hops = b.hops
                         /\ LexLeq(a.path_ids, b.path_ids)

\* R with the pairs two of its pairs compose to
Composed(R) ==
    R \cup {<<ab[1][1], ab[2][2]>> : ab \in {x \in R \X R : x[1][2] = x[2][1]}}

\* the pairs (u, v) with a path of one edge or more from u to v
RECURSIVE Closure(_, _)
Closure(R, S) == IF S = R THEN R ELSE Closure(S, Composed(S))

TransitiveClosure(R) == Closure(R, Composed(R))

\* C is a strongly connected component of the graph on nodes N whose
\* reachability relation is reach
IsComponent(C, N, reach) ==
    /\ C # {}
    /\ \A u, v \in C : u = v \/ (<<u, v>> \in reach /\ <<v, u>> \in reach)
    /\ \A n \in N \ C : \A u \in C : ~(<<n, u>> \in reach /\ <<u, n>> \in reach)

\* C24: find_cycles returns exactly the strongly connected components of the
\* symbol graph that have at least 2 members, each once, and no component
\* comes before a strictly larger one.
C24_CyclesAreTheLargeComponents ==
    cmd_out.cmd = "find_cycles"
        => /\ \E reach \in {TransitiveClosure(QueriedGraph.edges)} :
                Range(cmd_out.cycles)
                    = {C \in SUBSET QueriedGraph.nodes :
                         Cardinality(C) >= 2
                           /\ IsComponent(C, QueriedGraph.nodes, reach)}
           /\ \A i, j \in DOMAIN cmd_out.cycles :
                 i < j => /\ cmd_out.cycles[i] # cmd_out.cycles[j]
                          /\ Cardinality(cmd_out.cycles[i])
                               >= Cardinality(cmd_out.cycles[j])

\* find_cycles has returned a component of three nodes and one of two
C24_Witness ==
    /\ cmd_out.cmd = "find_cycles"
    /\ Len(cmd_out.cycles) = 2
    /\ Cardinality(cmd_out.cycles[1]) > Cardinality(cmd_out.cycles[2])

-----------------------------------------------------------------------------
(* Properties of the metadata extractor *)

CallRefTo(n) ==
    \E i \in DOMAIN flow_refs.refs :
        flow_refs.refs[i].kind = "call" /\ flow_refs.refs[i].target_name = <<n>>

\* C26: for every actionCalls element of a Flow whose actionType is apex the
\* extractor returns a call-kind reference to the handler its actionName
\* names; for an element of any other actionType it returns no call-kind
\* reference to that name (unless an apex element names the same handler).
C26_ApexActionIsCallReference ==
    flow_refs.called
        => \A i \in DOMAIN flow :
              flow[i].actionName # ""
                => IF flow[i].actionType = "apex" THEN CallRefTo(flow[i].actionName)
                   ELSE (\A j \in DOMAIN flow :
                            flow[j].actionName = flow[i].actionName
                                => flow[j].actionType # "apex")
                          => ~CallRefTo(flow[i].actionName)

-----------------------------------------------------------------------------
(* Properties of extract_vue_template *)

\* the number of pieces p among vue_src[a..b]
CountOf(p, a, b) == Cardinality({i \in a..b : i \in DOMAIN vue_src /\ vue_src[i] = p})

\* the depth counted from the opening tag at o is back at zero at the
\* </template> at c
Balances(o, c) ==
    /\ c > o /\ vue_src[c] = "close"
    /\ CountOf("open", o + 1, c - 1) = CountOf("close", o + 1, c - 1)

\* C27: extract_vue_template returns the text between the first opening
\* <template> tag and the </template> that balances it, nested opening tags
\* counting +1, closing tags -1 and self-closing tags not at all; it returns
\* None when there is no opening tag or the depth never returns to zero.
C27_TemplateIsBalancedBlock ==
    vue_out.called
        => LET opens == {i \in DOMAIN vue_src : vue_src[i] = "open"}
               closes == IF opens = {} THEN {}
                         ELSE {c \in DOMAIN vue_src : Balances(Min(opens), c)}
           \* the balancing tag is the first of them
           IN  IF closes = {} THEN ~vue_out.found
               ELSE /\ vue_out.found
                    /\ vue_out.content = SubSeq(vue_src, Min(opens) + 1, Min(closes) - 1)
====
